---- MODULE Spec2Model ----
(***************************************************************************)
(* A model of functions-framework-go: the function registry                *)
(* (internal/registry), the request dispatcher (initServer, wrapFunction)  *)
(* and the per-kind invocation adapters of package funcframework.          *)
(*                                                                         *)
(* Go strings that the program builds are sequences of chunks, so that     *)
(* concatenation, HasSuffix and formatting are computed, not assumed.      *)
(* A nil error is the empty sequence.                                      *)
(***************************************************************************)
EXTENDS Integers, Sequences, FiniteSets, TLC

VARIABLES
    functions,              \* Registry.functions: name -> RegisteredFunction
    functionsWithoutNames,  \* Registry.functionsWithoutNames, in registration order
    nCalls,                 \* number of registration calls made so far
    lastCall,               \* the last registration call and the error it returned
    target,                 \* environment variable FUNCTION_TARGET ("" when unset)
    kService,               \* environment variable K_SERVICE is non-empty
    phase,                  \* "registering" | "serving" | "failed" | "panicked"
    server,                 \* the ServeMux initServer returned: pattern -> handler
    initErr,                \* the error initServer returned
    inputType,              \* the reflect.Value wrapTypedFunction captured: pattern -> struct
    req,                    \* the request handled last
    resp,                   \* the response the client received for it
    stderr,                 \* what was written to os.Stderr while handling it
    invoked,                \* how many times the user function was called for it
    argSeen,                \* the argument the user function was called with
    escaped,                \* a panic left the adapter's own code while handling it
    prev,                   \* outcome of the request handled before it
    timeoutEnv,             \* environment variable CLOUD_RUN_TIMEOUT_SECONDS, as characters
    ctxDeadline,            \* whether the context the user function got had a deadline
    pure,                   \* the last call of a conversion function: name, input, output
    logger                  \* a structuredLogWriter, its sink and the Write calls made on it

vars == <<functions, functionsWithoutNames, nCalls, lastCall, target, kService,
          phase, server, initErr, inputType, req, resp, stderr, invoked,
          argSeen, escaped, prev, timeoutEnv, ctxDeadline, pure, logger>>

regVars == <<functions, functionsWithoutNames, nCalls, lastCall>>
envVars == <<target, kService, timeoutEnv>>
srvVars == <<phase, server, initErr>>
reqVars == <<inputType, req, resp, stderr, invoked, argSeen, escaped, prev, ctxDeadline>>

\* Number of registration calls explored.
MaxRegs == 2

NoErr == <<>>
NL == "\n"

(***************************************************************************)
(* Callbacks.  A callback value carries what reflection sees of it: whether *)
(* it is a function at all, its parameter types and its result types.      *)
(* "ctx" is a parameter type that context.Context is assignable to,        *)
(* "error" a result type assignable to error, "T" any other type.          *)
(***************************************************************************)
NilFn == [id |-> "nil", isFunc |-> FALSE, ins |-> <<>>, outs |-> <<>>]

Callback(id, ins, outs) == [id |-> id, isFunc |-> TRUE, ins |-> ins, outs |-> outs]

HTTPFns == {Callback("http1", <<"T", "T">>, <<>>), Callback("http2", <<"T", "T">>, <<>>)}
CloudEventFns == {Callback("ce1", <<"ctx", "T">>, <<"error">>)}

\* Parameter lists and result lists a value registered as interface{} may have.
EventIns == {<<>>, <<"ctx">>, <<"T">>, <<"ctx", "T">>, <<"T", "T">>,
             <<"ctx", "T", "T">>, <<"T", "T", "T">>}
EventOuts == {<<>>, <<"error">>, <<"T">>, <<"error", "error">>, <<"T", "error">>,
              <<"error", "T">>, <<"T", "T">>}
TypedIns == {<<>>, <<"T">>, <<"T", "T">>}
TypedOuts == EventOuts \cup {<<"T", "T", "error">>, <<"T", "error", "error">>}

AllEventFns == {Callback("ev", i, o) : i \in EventIns, o \in EventOuts}
AllTypedFns == {Callback("ty", i, o) : i \in TypedIns, o \in TypedOuts}

\* The callbacks the registry specification registers.
EventFns == {Callback("ev", <<"ctx", "T">>, <<"error">>), Callback("ev", <<"ctx">>, <<"error">>)}
TypedFns == {Callback("ty", <<"T">>, <<"T", "error">>)}

Names == {"", "f", "g"}
RegPaths == {"", "/a"}
Targets == {"", "g"}

(***************************************************************************)
(* internal/registry                                                       *)
(***************************************************************************)
RegisteredFunction(kind, fn) ==
    [Name |-> "", Path |-> "",
     CloudEventFn |-> IF kind = "CloudEventFn" THEN fn ELSE NilFn,
     HTTPFn       |-> IF kind = "HTTPFn" THEN fn ELSE NilFn,
     EventFn      |-> IF kind = "EventFn" THEN fn ELSE NilFn,
     TypedFn      |-> IF kind = "TypedFn" THEN fn ELSE NilFn]

WithPath(path) == [field |-> "Path", val |-> path]
WithName(name) == [field |-> "Name", val |-> name]

RECURSIVE applyOptions(_, _)
applyOptions(function, options) ==
    IF options = <<>> THEN function
    ELSE applyOptions([function EXCEPT ![Head(options).field] = Head(options).val],
                      Tail(options))

New == [functions |-> <<>>, functionsWithoutNames |-> <<>>]

ErrNoNameNoPath == <<"either the function path or the function name should be specified">>
ErrDuplicate(name) == <<"function name already registered: ", name>>

\* Registry.register without the duplicate-name check.
registerOverwrite(r, function0, options) ==
    LET function == applyOptions(function0, options) IN
    IF function.Name = "" /\ function.Path = ""
    THEN [functions |-> r.functions, functionsWithoutNames |-> r.functionsWithoutNames,
          err |-> ErrNoNameNoPath]
    ELSE IF function.Name = ""
    THEN [functions |-> r.functions,
          functionsWithoutNames |-> Append(r.functionsWithoutNames, function),
          err |-> NoErr]
    ELSE LET stored == IF function.Path = ""
                       THEN [function EXCEPT !.Path = "/" \o function.Name]
                       ELSE function
         IN [functions |-> [n \in DOMAIN r.functions \cup {function.Name} |->
                               IF n = function.Name THEN stored ELSE r.functions[n]],
             functionsWithoutNames |-> r.functionsWithoutNames,
             err |-> NoErr]

\* Registry.register: the registry after the call and the error returned.
register(r, function0, options) ==
    LET function == applyOptions(function0, options) IN
    IF function.Name = "" /\ function.Path = ""
    THEN [functions |-> r.functions, functionsWithoutNames |-> r.functionsWithoutNames,
          err |-> ErrNoNameNoPath]
    ELSE IF function.Name = ""
    THEN [functions |-> r.functions,
          functionsWithoutNames |-> Append(r.functionsWithoutNames, function),
          err |-> NoErr]
    ELSE IF function.Name \in DOMAIN r.functions
    THEN [functions |-> r.functions, functionsWithoutNames |-> r.functionsWithoutNames,
          err |-> ErrDuplicate(function.Name)]
    ELSE LET stored == IF function.Path = ""
                       THEN [function EXCEPT !.Path = "/" \o function.Name]
                       ELSE function
         IN [functions |-> [n \in DOMAIN r.functions \cup {function.Name} |->
                               IF n = function.Name THEN stored ELSE r.functions[n]],
             functionsWithoutNames |-> r.functionsWithoutNames,
             err |-> NoErr]

Registry == [functions |-> functions, functionsWithoutNames |-> functionsWithoutNames]

\* Registry.GetRegisteredFunction: (fn, ok)
GetRegisteredFunction(r, name) ==
    IF name \in DOMAIN r.functions
    THEN [fn |-> r.functions[name], ok |-> TRUE]
    ELSE [fn |-> RegisteredFunction("none", NilFn), ok |-> FALSE]

\* GetLastFunctionWithoutName that returns the first unnamed function
GetFirstFunctionWithoutName(r) ==
    LET count == Len(r.functionsWithoutNames) IN
    IF count = 0
    THEN [fn |-> RegisteredFunction("none", NilFn), ok |-> FALSE]
    ELSE [fn |-> r.functionsWithoutNames[1], ok |-> TRUE]

\* Registry.GetLastFunctionWithoutName: (fn, present); present is "the result is not nil"
GetLastFunctionWithoutName(r) ==
    LET count == Len(r.functionsWithoutNames) IN
    IF count = 0
    THEN [fn |-> RegisteredFunction("none", NilFn), ok |-> FALSE]
    ELSE [fn |-> r.functionsWithoutNames[count], ok |-> TRUE]

\* All orders in which a set can be enumerated (Go map iteration order is unspecified).
RECURSIVE Orders(_)
Orders(S) ==
    IF S = {} THEN {<<>>}
    ELSE UNION {{<<x>> \o rest : rest \in Orders(S \ {x})} : x \in S}

\* Registry.GetAllFunctions: the unnamed functions, then the named ones in the
\* order the map iteration yields them.
GetAllFunctions(r, order) ==
    r.functionsWithoutNames \o [i \in 1..Len(order) |-> r.functions[order[i]]]

\* One call of a Register* method of the registry (or of a wrapper around it).
Call(api, kind, fn, options) ==
    /\ phase = "registering"
    /\ nCalls < MaxRegs
    /\ LET res == register(Registry, RegisteredFunction(kind, fn), options)
           asked == applyOptions(RegisteredFunction(kind, fn), options)
       IN /\ functions' = res.functions
          /\ functionsWithoutNames' = res.functionsWithoutNames
          /\ lastCall' = [api |-> api, fn |-> fn, name |-> asked.Name,
                          path |-> asked.Path, err |-> res.err]
    /\ nCalls' = nCalls + 1
    /\ UNCHANGED <<envVars, srvVars, reqVars, pure, logger>>

OptionLists == {<<WithName(n), WithPath(p)>> : n \in Names, p \in RegPaths}

RegisterHTTP ==
    \E fn \in HTTPFns, o \in OptionLists : Call("RegisterHTTP", "HTTPFn", fn, o)

RegisterCloudEvent ==
    \E fn \in CloudEventFns, o \in OptionLists :
        Call("RegisterCloudEvent", "CloudEventFn", fn, o)

RegisterEvent ==
    \E fn \in EventFns, o \in OptionLists : Call("RegisterEvent", "EventFn", fn, o)

RegisterTyped ==
    \E fn \in TypedFns, o \in OptionLists : Call("RegisterTyped", "TypedFn", fn, o)

\* funcframework.RegisterEventFunctionContext(ctx, path, fn)
RegisterEventFunctionContext ==
    \E fn \in EventFns, p \in RegPaths :
        Call("RegisterEventFunctionContext", "EventFn", fn, <<WithPath(p)>>)

(***************************************************************************)
(* Signature validation (funcframework)                                    *)
(***************************************************************************)
Ok == [err |-> NoErr, panicked |-> FALSE]
Fail(err) == [err |-> err, panicked |-> FALSE]
\* reflect panics ("reflect: NumIn of non-func type") on a value that is no function.
ReflectPanic == [err |-> NoErr, panicked |-> TRUE]

ErrEventArity(n) == <<"expected function to have two parameters, found ", ToString(n)>>
ErrEventReturn == <<"expected function to return only an error">>
ErrEventContext == <<"expected first parameter to be context.Context">>
ErrTypedArity(n) == <<"expected function to have one parameters, found ", ToString(n)>>
ErrTypedMaxReturn == <<"expected function to have maximum two return values">>
ErrTypedLastReturn == <<"expected last return type to be of error">>

\* validateEventFunction accepting any function of at least two parameters.
validateEventFunctionAtLeastTwo(fn) ==
    IF ~fn.isFunc THEN ReflectPanic
    ELSE IF Len(fn.ins) < 2 THEN Fail(ErrEventArity(Len(fn.ins)))
    ELSE IF Len(fn.outs) # 1 \/ fn.outs[1] # "error" THEN Fail(ErrEventReturn)
    ELSE IF fn.ins[1] # "ctx" THEN Fail(ErrEventContext)
    ELSE Ok

validateEventFunction(fn) ==
    IF ~fn.isFunc THEN ReflectPanic
    ELSE IF Len(fn.ins) # 2 THEN Fail(ErrEventArity(Len(fn.ins)))
    ELSE IF Len(fn.outs) # 1 \/ fn.outs[1] # "error" THEN Fail(ErrEventReturn)
    ELSE IF fn.ins[1] # "ctx" THEN Fail(ErrEventContext)
    ELSE Ok

validateTypedFunction(fn) ==
    IF ~fn.isFunc THEN ReflectPanic
    ELSE IF Len(fn.ins) # 1 THEN Fail(ErrTypedArity(Len(fn.ins)))
    ELSE IF Len(fn.outs) > 2 THEN Fail(ErrTypedMaxReturn)
    ELSE IF Len(fn.outs) > 0 /\ fn.outs[Len(fn.outs)] # "error" THEN Fail(ErrTypedLastReturn)
    ELSE Ok

(***************************************************************************)
(* Request dispatcher: wrapFunction, initServer                            *)
(***************************************************************************)
NoHandler == [kind |-> "none", fn |-> NilFn]
Handler(kind, fn) == [kind |-> kind, fn |-> fn]

Wrapped(h) == [handler |-> h, err |-> NoErr, panicked |-> FALSE]
WrapFailed(v, prefix) ==
    [handler |-> NoHandler,
     err |-> IF v.panicked THEN NoErr ELSE <<prefix>> \o v.err,
     panicked |-> v.panicked]

\* wrapFunction: the handler for a registered function, or the error, or a panic
wrapFunction(fn) ==
    IF fn.HTTPFn # NilFn THEN Wrapped(Handler("HTTP", fn.HTTPFn))
    ELSE IF fn.CloudEventFn # NilFn THEN Wrapped(Handler("CloudEvent", fn.CloudEventFn))
    ELSE IF fn.EventFn # NilFn
    THEN LET v == validateEventFunction(fn.EventFn) IN
         IF v = Ok THEN Wrapped(Handler("Event", fn.EventFn))
         ELSE WrapFailed(v, "unexpected error in wrapEventFunction: ")
    ELSE IF fn.TypedFn # NilFn
    THEN LET v == validateTypedFunction(fn.TypedFn) IN
         IF v = Ok THEN Wrapped(Handler("Typed", fn.TypedFn))
         ELSE WrapFailed(v, "unexpected error in wrapTypedFunction: ")
    ELSE [handler |-> NoHandler, err |-> <<"missing function entry in ", fn.Name>>,
          panicked |-> FALSE]

NoServer == <<>>
ErrNoMatch(t) == <<"no matching function found with name: ", t>>

\* http.ServeMux.Handle as initServer uses it: it panics on a pattern that is
\* already registered.
muxHandle(mux, pattern, h) ==
    IF pattern \in DOMAIN mux
    THEN [server |-> NoServer, err |-> NoErr, panicked |-> TRUE]
    ELSE [server |-> [p \in DOMAIN mux \cup {pattern} |->
                         IF p = pattern THEN h ELSE mux[p]],
          err |-> NoErr, panicked |-> FALSE]

\* The loop of initServer over GetAllFunctions: wrap and bind each in turn.
RECURSIVE bindAll(_, _)
bindAll(fns, mux) ==
    IF fns = <<>> THEN [server |-> mux, err |-> NoErr, panicked |-> FALSE]
    ELSE LET fn == Head(fns)
             h == wrapFunction(fn)
         IN IF h.panicked THEN [server |-> NoServer, err |-> NoErr, panicked |-> TRUE]
            ELSE IF h.err # NoErr
            THEN [server |-> NoServer,
                  err |-> <<"failed to serve function at path ", fn.Path, ": ">> \o h.err,
                  panicked |-> FALSE]
            ELSE LET b == muxHandle(mux, fn.Path, h.handler) IN
                 IF b.panicked THEN b ELSE bindAll(Tail(fns), b.server)

\* initServer: the ServeMux, or the error, or a panic.  order is the order in
\* which the iteration over the map of named functions yields them.
initServer(r, t, order) ==
    IF t # ""
    THEN LET named == GetRegisteredFunction(r, t)
             last == GetLastFunctionWithoutName(r)
         IN IF ~named.ok /\ ~last.ok
            THEN [server |-> NoServer, err |-> ErrNoMatch(t), panicked |-> FALSE]
            ELSE LET targetFn == IF named.ok THEN named.fn ELSE last.fn
                     h == wrapFunction(targetFn)
                 IN IF h.panicked
                    THEN [server |-> NoServer, err |-> NoErr, panicked |-> TRUE]
                    ELSE IF h.err # NoErr
                    THEN [server |-> NoServer,
                          err |-> <<"failed to serve function ", t, ": ">> \o h.err,
                          panicked |-> FALSE]
                    ELSE muxHandle(NoServer, "/", h.handler)
    ELSE bindAll(GetAllFunctions(r, order), NoServer)

\* The struct a typed handler decodes into: reflect.New(ft.In(0)), made once
\* by validateTypedFunction when the function is wrapped.
ZeroStruct == [id |-> "0", name |-> ""]

\* StartHostPort: initServer, and on success the server listens.
StartHostPort ==
    /\ phase = "registering"
    /\ \E order \in Orders(DOMAIN functions) :
         LET s == initServer(Registry, target, order) IN
         /\ server' = s.server
         /\ initErr' = s.err
         /\ phase' = IF s.panicked THEN "panicked"
                     ELSE IF s.err # NoErr THEN "failed" ELSE "serving"
         /\ inputType' = [p \in {q \in DOMAIN s.server : s.server[q].kind = "Typed"} |->
                             ZeroStruct]
    /\ UNCHANGED <<regVars, envVars, req, resp, stderr, invoked, argSeen, escaped, prev,
                   ctxDeadline, pure, logger>>

(***************************************************************************)
(* Requests                                                                *)
(*                                                                         *)
(* A request body is described by what the decoders make of it:            *)
(*   wf       the body is well-formed JSON                                  *)
(*   id,name  the fields of a typed function's input struct: "absent", a    *)
(*            value of the right type, or "bad" (a value of another type)   *)
(*   data     the top-level "data" key: "absent", "null" or "value"         *)
(*   context  the top-level "context" key: "absent", "present" or "bad"     *)
(*   eventId  the top-level "eventId" key: "" (absent), an id, or "bad"     *)
(*   legacy   a legacy Pub/Sub push body ("subscription"/"message" keys)    *)
(*   msgId    the legacy message id                                         *)
(*   payload  whether the event payload decodes into the function's type    *)
(*   whole    whether the whole body decodes into the function's type       *)
(*   ce       "yes": the request is a well-formed CloudEvent; "invalid": it *)
(*            has CloudEvent headers but is no valid event; "no": neither   *)
(*   conv     whether the CloudEvent has a background equivalent            *)
(*   evType   the metadata's eventType, split after the prefix that names   *)
(*            its service                                                   *)
(*   resource the metadata's resource as decoded: nil when the key is       *)
(*            absent, RawPath when it is a string, else Service/Name/Type   *)
(*   The metadata fields (eventId, evType, resource) are those of the       *)
(*   context when there is one and the top-level ones otherwise.            *)
(***************************************************************************)
NoCall == [api |-> "none", fn |-> NilFn, name |-> "", path |-> "", err |-> NoErr]
\* metadata.Resource; a nil *Resource has isNil
Resource(service, name, rawPath, type) ==
    [isNil |-> FALSE, Service |-> service, Name |-> name, RawPath |-> rawPath,
     Type |-> type]
NilResource == [Resource("", <<>>, <<>>, "") EXCEPT !.isNil = TRUE]

pubsubEventType == <<"google.pubsub", ".topic.publish">>
pubsubMessageType == "type.googleapis.com/google.pubusb.v1.PubsubMessage"
pubsubService == "pubsub.googleapis.com"
TopicName == <<"projects", "/", "p", "/", "topics", "/", "t">>

NoBody == [wf |-> TRUE, id |-> "absent", name |-> "absent", data |-> "absent",
           context |-> "absent", eventId |-> "", legacy |-> "absent",
           msgId |-> "", payload |-> "fit", whole |-> "fit",
           ce |-> "no", conv |-> "ok", evType |-> pubsubEventType,
           resource |-> Resource(pubsubService, TopicName, <<>>, pubsubMessageType)]

StorageName == <<"projects", "/", "_", "/", "buckets", "/", "b", "/", "objects", "/", "o">>

\* The URL paths of the requests, and their tokens
ReqPaths == {"/f", "/projects/p/topics/t"}
URLPath(path) == IF path = "/f" THEN <<"/", "f">> ELSE <<"/">> \o TopicName
\* The body after it has been read to the end: no bytes, which is not JSON.
EmptyBody == [NoBody EXCEPT !.wf = FALSE]
NoBeh == [writes |-> <<>>, outcome |-> "ok", errText |-> <<>>, panicVal |-> "",
          returns |-> <<>>]
NoReq == [kind |-> "none", path |-> "", body |-> NoBody, beh |-> NoBeh]
NoResp == [status |-> 0, hdr |-> "", body |-> <<>>]

(***************************************************************************)
(* The response writer and the error stream                                *)
(*                                                                         *)
(* A request is handled on a record x: the http.ResponseWriter w, what has *)
(* been written to os.Stderr, the number of calls of the user function,    *)
(* the argument it was called with, the struct a typed handler shares, and *)
(* the panic in flight ("" when none).                                     *)
(***************************************************************************)
NewWriter == [wroteHeader |-> FALSE, status |-> 0, header |-> "", sent |-> "",
              body |-> <<>>]

\* w.Header().Set("X-Google-Status", v): has no effect on headers already sent
SetStatusHeader(w, v) == [w EXCEPT !.header = v]

\* w.WriteHeader(code): the first call decides the status and sends the headers
WriteHeader(w, code) ==
    IF w.wroteHeader THEN w
    ELSE [w EXCEPT !.wroteHeader = TRUE, !.status = code, !.sent = w.header]

\* w.Write(data): sends status 200 first when no header has been written
Write(w, data) ==
    LET w1 == WriteHeader(w, 200) IN [w1 EXCEPT !.body = @ \o data]

\* What the client receives once the handler has returned.
Received(w) ==
    LET w1 == WriteHeader(w, 200) IN
    [status |-> w1.status, hdr |-> w1.sent, body |-> w1.body]

\* What the client receives when a panic leaves the handler: net/http closes
\* the connection without completing a response.
Aborted == [status |-> -1, hdr |-> "", body |-> <<>>]

NewExec(shared) == [w |-> NewWriter, stderr |-> <<>>, invoked |-> 0,
                    argSeen |-> ZeroStruct, shared |-> shared, panic |-> "",
                    reraised |-> FALSE, hasDeadline |-> FALSE, ctxSeen |-> "none"]

HasSuffixNL(msg) == Len(msg) > 0 /\ msg[Len(msg)] = NL

\* writeHTTPErrorResponse that does not set the status header.
writeHTTPErrorResponseNoHeader(x, statusCode, status, msg0) ==
    LET msg == IF HasSuffixNL(msg0) THEN msg0 ELSE msg0 \o <<NL>>
        flush == IF kService THEN <<NL>> ELSE <<>>
    IN [x EXCEPT !.stderr = @ \o msg \o flush,
                 !.w = Write(WriteHeader(@, statusCode), msg)]

writeHTTPErrorResponse(x, statusCode, status, msg0) ==
    LET msg == IF HasSuffixNL(msg0) THEN msg0 ELSE msg0 \o <<NL>>
        flush == IF kService THEN <<NL>> ELSE <<>>
    IN [x EXCEPT !.stderr = @ \o msg \o flush,
                 !.w = Write(WriteHeader(SetStatusHeader(@, status), statusCode), msg)]

PanicMsg(panicSrc) ==
    <<"A panic occurred during ", panicSrc, ". Please see logs for more details.">>
UserExec == "user function execution"

\* recoverPanic that only logs: no response is written for the panic.
recoverPanicLogOnly(x, hasW, panicSrc, shouldPanic) ==
    IF x.panic = "" THEN x
    ELSE LET genericMsg == PanicMsg(panicSrc)
             logged == [x EXCEPT !.stderr = @ \o genericMsg \o
                           <<NL, "panic message: ", x.panic, NL, "stack trace: ",
                             x.panic, NL, "debug.Stack()">>]
         IN IF shouldPanic THEN logged ELSE [logged EXCEPT !.panic = ""]

\* recoverPanic that puts the panic value into the response.
recoverPanicExposing(x, hasW, panicSrc, shouldPanic) ==
    IF x.panic = "" THEN x
    ELSE LET genericMsg == PanicMsg(panicSrc)
             logged == [x EXCEPT !.stderr = @ \o genericMsg \o
                           <<NL, "panic message: ", x.panic, NL, "stack trace: ",
                             x.panic, NL, "debug.Stack()">>]
             written == IF hasW
                        THEN writeHTTPErrorResponse(logged, 500, "crash",
                                                    genericMsg \o <<x.panic>>)
                        ELSE logged
         IN IF shouldPanic THEN written ELSE [written EXCEPT !.panic = ""]

\* recoverPanic, deferred: acts only when a panic is in flight.  hasW is w # nil.
recoverPanic(x, hasW, panicSrc, shouldPanic) ==
    IF x.panic = "" THEN x
    ELSE LET genericMsg == PanicMsg(panicSrc)
             logged == [x EXCEPT !.stderr = @ \o genericMsg \o
                           <<NL, "panic message: ", x.panic, NL, "stack trace: ",
                             x.panic, NL, "debug.Stack()">>]
             written == IF hasW
                        THEN writeHTTPErrorResponse(logged, 500, "crash", genericMsg)
                        ELSE logged
         IN IF shouldPanic THEN written ELSE [written EXCEPT !.panic = ""]

fmtFunctionError(err) ==
    LET formatted == <<"Function error: ">> \o err IN
    IF HasSuffixNL(formatted) THEN formatted ELSE formatted \o <<NL>>

\* The deferred fmt.Fprintln(os.Stderr) of the HTTP and event handlers.
flushLogs(x) == IF kService THEN [x EXCEPT !.stderr = @ \o <<NL>>] ELSE x

\* fmt.Sprintf(format) with no operands, on a format given as characters:
\* "%%" prints "%", "%" followed by c prints "%!c(MISSING)", a final "%"
\* prints "%!(NOVERB)".
RECURSIVE Sprintf(_)
Sprintf(format) ==
    IF format = <<>> THEN <<>>
    ELSE IF Head(format) # "%" THEN <<Head(format)>> \o Sprintf(Tail(format))
    ELSE IF Len(format) = 1 THEN <<"%!(NOVERB)">>
    ELSE IF format[2] = "%" THEN <<"%">> \o Sprintf(Tail(Tail(format)))
    ELSE <<"%!", format[2], "(MISSING)">> \o Sprintf(Tail(Tail(format)))

(***************************************************************************)
(* Request context: setupRequestContext                                    *)
(***************************************************************************)

\* strconv.Atoi succeeds: an optional sign and then digits only.
AtoiOk(str) ==
    LET body == IF str # <<>> /\ Head(str) \in {"+", "-"} THEN Tail(str) ELSE str IN
    body # <<>> /\ \A i \in DOMAIN body : body[i] \in {"0", "1", "2", "3", "4", "5", "6", "7", "8", "9"}

\* setContextTimeoutIfRequested: the request context gets a deadline when
\* CLOUD_RUN_TIMEOUT_SECONDS is an integer; a value that is none is reported
\* on os.Stderr.
setContextTimeoutIfRequested(x) ==
    IF timeoutEnv = <<>> THEN x
    ELSE IF ~AtoiOk(timeoutEnv)
    THEN [x EXCEPT !.stderr = @ \o <<"Could not parse CLOUD_RUN_TIMEOUT_SECONDS as an integer value in seconds: ", "err", NL>>]
    ELSE [x EXCEPT !.hasDeadline = TRUE]

\* setupRequestContext: the timeout, then the logging ids (which change
\* neither the deadline nor the response).
setupRequestContext(x) == setContextTimeoutIfRequested(x)

(***************************************************************************)
(* HTTP adapter: the handler wrapHTTPFunction returns                      *)
(***************************************************************************)
RECURSIVE userWrites(_, _)
userWrites(w, ops) ==
    IF ops = <<>> THEN w
    ELSE userWrites(IF Head(ops).op = "WriteHeader"
                    THEN WriteHeader(w, Head(ops).code)
                    ELSE Write(w, Head(ops).data),
                    Tail(ops))

\* fn(w, r): what the user's HTTP function does to w before it returns or panics
callHTTPFn(x, beh) ==
    [x EXCEPT !.invoked = @ + 1,
              !.ctxSeen = IF x.hasDeadline THEN "yes" ELSE "no",
              !.w = userWrites(@, beh.writes),
              !.panic = IF beh.outcome = "panic" THEN beh.panicVal ELSE ""]

wrapHTTPFunction(x, r) ==
    flushLogs(recoverPanic(callHTTPFn(setupRequestContext(x), r.beh),
                           TRUE, UserExec, FALSE))

(***************************************************************************)
(* Paths and resource names                                                *)
(*                                                                         *)
(* A path or a resource name is a sequence of tokens: "/" and "?" are      *)
(* tokens of their own, every other token is a run of characters that are  *)
(* neither.  A regular expression is a sequence of elements: "[^/]+",      *)
(* "[^/?]+", ".+" or a literal token.                                      *)
(***************************************************************************)
\* End of the longest run of tokens outside stop that starts at seq[i].
RECURSIVE RunEnd(_, _, _)
RunEnd(seq, i, stop) ==
    IF i > Len(seq) \/ seq[i] \in stop THEN i ELSE RunEnd(seq, i + 1, stop)

\* regexp matching: the index after the match of re at seq[i..], 0 when re
\* does not match there.  Each repetition is greedy and is followed by a
\* literal of its stop set or by nothing, so it takes the longest run.
RECURSIVE MatchFrom(_, _, _)
MatchFrom(re, seq, i) ==
    IF re = <<>> THEN i
    ELSE IF i > Len(seq) THEN 0
    ELSE CASE Head(re) = "[^/]+" ->
                  IF seq[i] = "/" THEN 0
                  ELSE MatchFrom(Tail(re), seq, RunEnd(seq, i, {"/"}))
           [] Head(re) = "[^/?]+" ->
                  IF seq[i] \in {"/", "?"} THEN 0
                  ELSE MatchFrom(Tail(re), seq, RunEnd(seq, i, {"/", "?"}))
           [] Head(re) = ".+" ->
                  IF Tail(re) = <<>> THEN Len(seq) + 1 ELSE 0
           [] OTHER ->
                  IF seq[i] = Head(re) THEN MatchFrom(Tail(re), seq, i + 1) ELSE 0

ErrNoTopic == <<"failed to extract Pub/Sub topic name from the URL request path">>

\* ExtractTopicFromRequestPath that only looks at the start of the path
ExtractTopicFromRequestPathAnchored(path) ==
    LET re == <<"projects", "/", "[^/?]+", "/", "topics", "/", "[^/?]+">>
        e  == MatchFrom(re, path, 1)
    IN  IF e = 0 THEN [topic |-> <<>>, err |-> ErrNoTopic]
        ELSE [topic |-> SubSeq(path, 1, e - 1), err |-> NoErr]

\* pubsub.ExtractTopicFromRequestPath: FindStringSubmatch takes the leftmost
\* match of (projects\/[^/?]+\/topics\/[^/?]+)/* and returns its group.
ExtractTopicFromRequestPath(path) ==
    LET re     == <<"projects", "/", "[^/?]+", "/", "topics", "/", "[^/?]+">>
        starts == {i \in 1..Len(path) : MatchFrom(re, path, i) # 0}
    IN  IF starts = {} THEN [topic |-> <<>>, err |-> ErrNoTopic]
        ELSE LET i == CHOOSE k \in starts : \A m \in starts : k <= m
             IN  [topic |-> SubSeq(path, i, MatchFrom(re, path, i) - 1), err |-> NoErr]

\* typeBackgroundToCloudEvent, as pairs (background type, CloudEvent type)
typeBackgroundToCloudEvent ==
    {<<pubsubEventType,
         "google.cloud.pubsub.topic.v1.messagePublished">>,
     <<  <<"providers/cloud.pubsub/", "eventTypes/topic.publish">>,
         "google.cloud.pubsub.topic.v1.messagePublished">>,
     <<  <<"google.storage", ".object.finalize">>,
         "google.cloud.storage.object.v1.finalized">>,
     <<  <<"google.storage", ".object.delete">>,
         "google.cloud.storage.object.v1.deleted">>,
     <<  <<"google.storage", ".object.archive">>,
         "google.cloud.storage.object.v1.archived">>,
     <<  <<"google.storage", ".object.metadataUpdate">>,
         "google.cloud.storage.object.v1.metadataUpdated">>,
     <<  <<"providers/cloud.firestore/", "eventTypes/document.write">>,
         "google.cloud.firestore.document.v1.written">>,
     <<  <<"providers/cloud.firestore/", "eventTypes/document.create">>,
         "google.cloud.firestore.document.v1.created">>,
     <<  <<"providers/cloud.firestore/", "eventTypes/document.update">>,
         "google.cloud.firestore.document.v1.updated">>,
     <<  <<"providers/cloud.firestore/", "eventTypes/document.delete">>,
         "google.cloud.firestore.document.v1.deleted">>,
     <<  <<"providers/firebase.auth/", "eventTypes/user.create">>,
         "google.firebase.auth.user.v1.created">>,
     <<  <<"providers/firebase.auth/", "eventTypes/user.delete">>,
         "google.firebase.auth.user.v1.deleted">>,
     <<  <<"providers/google.firebase.analytics/", "eventTypes/event.log">>,
         "google.firebase.analytics.log.v1.written">>,
     <<  <<"providers/google.firebase.database/", "eventTypes/ref.create">>,
         "google.firebase.database.document.v1.created">>,
     <<  <<"providers/google.firebase.database/", "eventTypes/ref.write">>,
         "google.firebase.database.document.v1.written">>,
     <<  <<"providers/google.firebase.database/", "eventTypes/ref.update">>,
         "google.firebase.database.document.v1.updated">>,
     <<  <<"providers/google.firebase.database/", "eventTypes/ref.delete">>,
         "google.firebase.database.document.v1.deleted">>,
     <<  <<"providers/cloud.storage/", "eventTypes/object.change">>,
         "google.cloud.storage.object.v1.finalized">>}

\* A service table in which one key is a prefix of other keys.
serviceBackgroundToCloudEventOverlapping ==
    {<<"providers/cloud.firestore/", "firestore.googleapis.com">>,
     <<"providers/google.firebase.analytics/", "firebase.googleapis.com">>,
     <<"providers/firebase.auth/", "firebaseauth.googleapis.com">>,
     <<"providers/google.firebase.database/", "firebasedatabase.googleapis.com">>,
     <<"providers/cloud.pubsub/", "pubsub.googleapis.com">>,
     <<"providers/cloud.storage/", "storage.googleapis.com">>,
     <<"providers/", "firebase.googleapis.com">>,
     <<"google.pubsub", "pubsub.googleapis.com">>,
     <<"google.storage", "storage.googleapis.com">>}

\* serviceBackgroundToCloudEvent, as pairs (type prefix, service)
serviceBackgroundToCloudEvent ==
    {<<"providers/cloud.firestore/", "firestore.googleapis.com">>,
     <<"providers/google.firebase.analytics/", "firebase.googleapis.com">>,
     <<"providers/firebase.auth/", "firebaseauth.googleapis.com">>,
     <<"providers/google.firebase.database/", "firebasedatabase.googleapis.com">>,
     <<"providers/cloud.pubsub/", "pubsub.googleapis.com">>,
     <<"providers/cloud.storage/", "storage.googleapis.com">>,
     <<"google.pubsub", "pubsub.googleapis.com">>,
     <<"google.storage", "storage.googleapis.com">>}

\* ceServiceToResourceRe: the two groups of each service's anchored regexp
ceServiceToResourceRe ==
    [svc \in {"firebase.googleapis.com", "firebasedatabase.googleapis.com",
              "firestore.googleapis.com", "storage.googleapis.com"} |->
       CASE svc = "firebase.googleapis.com" ->
              <<  <<"projects", "/", "[^/]+">>, <<"events", "/", "[^/]+">>  >>
         [] svc = "firebasedatabase.googleapis.com" ->
              <<  <<"projects", "/", "_", "/", "instances", "/", "[^/]+">>,
                  <<"refs", "/", ".+">>  >>
         [] svc = "firestore.googleapis.com" ->
              <<  <<"projects", "/", "[^/]+", "/", "databases", "/", "(default)">>,
                  <<"documents", "/", ".+">>  >>
         [] svc = "storage.googleapis.com" ->
              <<  <<"projects", "/", "_", "/", "buckets", "/", "[^/]+">>,
                  <<"objects", "/", ".+">>  >>]

\* splitResource that also splits a Pub/Sub resource, at /topics/
splitResourceAtTopics(service, resource) ==
    LET re == IF service = "pubsub.googleapis.com"
              THEN <<  <<"projects", "/", "[^/]+">>, <<"topics", "/", "[^/]+">>  >>
              ELSE IF service \in DOMAIN ceServiceToResourceRe
              THEN ceServiceToResourceRe[service] ELSE <<>>
        e1 == IF re = <<>> THEN 0 ELSE MatchFrom(re[1] \o <<"/">>, resource, 1)
        e2 == IF e1 = 0 THEN 0 ELSE MatchFrom(re[2], resource, e1)
    IN  IF re = <<>> THEN [resource |-> resource, subject |-> <<>>, err |-> NoErr]
        ELSE IF e2 # Len(resource) + 1
        THEN [resource |-> resource, subject |-> <<>>, err |-> <<"resource regexp did not match">>]
        ELSE [resource |-> SubSeq(resource, 1, e1 - 2),
              subject  |-> SubSeq(resource, e1, Len(resource)),
              err      |-> NoErr]

\* splitResource that returns the resource whole when nothing matches
splitResourceLenient(service, resource) ==
    IF service \notin DOMAIN ceServiceToResourceRe
    THEN [resource |-> resource, subject |-> <<>>, err |-> NoErr]
    ELSE LET re == ceServiceToResourceRe[service]
             e1 == MatchFrom(re[1] \o <<"/">>, resource, 1)
             e2 == IF e1 = 0 THEN 0 ELSE MatchFrom(re[2], resource, e1)
         IN  IF e2 # Len(resource) + 1
             THEN [resource |-> resource, subject |-> <<>>, err |-> NoErr]
             ELSE [resource |-> SubSeq(resource, 1, e1 - 2),
                   subject  |-> SubSeq(resource, e1, Len(resource)),
                   err      |-> NoErr]

\* splitResource: ^(group 1)/(group 2)$ of the service's regexp
splitResource(service, resource) ==
    IF service \notin DOMAIN ceServiceToResourceRe
    THEN [resource |-> resource, subject |-> <<>>, err |-> NoErr]
    ELSE LET re == ceServiceToResourceRe[service]
             e1 == MatchFrom(re[1] \o <<"/">>, resource, 1)
             e2 == IF e1 = 0 THEN 0 ELSE MatchFrom(re[2], resource, e1)
         IN  IF e2 # Len(resource) + 1
             THEN [resource |-> resource, subject |-> <<>>, err |-> <<"resource regexp did not match">>]
             ELSE [resource |-> SubSeq(resource, 1, e1 - 2),
                   subject  |-> SubSeq(resource, e1, Len(resource)),
                   err      |-> NoErr]

(***************************************************************************)
(* Event adapter: the handler wrapEventFunction returns                    *)
(***************************************************************************)
SyntaxErr == <<"invalid character">>
DecodeErr == <<"json: cannot unmarshal">>
JSONErr(body) == IF body.wf THEN DecodeErr ELSE SyntaxErr

NilMd == [isNil |-> TRUE, EventID |-> "", EventType |-> <<>>, Resource |-> NilResource]
Metadata(id, type, resource) ==
    [isNil |-> FALSE, EventID |-> id, EventType |-> type, Resource |-> resource]
NotBackground == [md |-> NilMd, data |-> "nil", err |-> NoErr]

\* ConvertLegacyEventToBackgroundEvent that takes the subscription for the id
ConvertLegacyEventToBackgroundEventSubscription(le, topic) ==
    [md   |-> Metadata("subscription", pubsubEventType,
                       Resource(pubsubService, topic, <<>>, pubsubMessageType)),
     data |-> "value"]

\* pubsub.ConvertLegacyEventToBackgroundEvent: the data map is never nil
ConvertLegacyEventToBackgroundEvent(le, topic) ==
    [md   |-> Metadata(le.msgId, pubsubEventType,
                       Resource(pubsubService, topic, <<>>, pubsubMessageType)),
     data |-> "value"]

\* json.Unmarshal(body, &possible): an embedded pointer is allocated when one
\* of its keys is in the body, whatever the key's value; a key whose value
\* has the wrong type is an error.
unmarshalPossibleEvents(body) ==
    [err |-> IF ~body.wf THEN SyntaxErr
             ELSE IF body.context = "bad"
                     \/ (body.context = "present" /\ body.eventId = "bad")
             THEN DecodeErr ELSE NoErr,
     LegacyEvent     |-> body.legacy = "present",
     BackgroundEvent |-> body.data # "absent" \/ body.context # "absent"]

\* json.Unmarshal(body, m) that does not keep the event id
unmarshalMetadataNoID(body) ==
    [err |-> IF body.eventId = "bad" THEN DecodeErr ELSE NoErr,
     m   |-> Metadata("", body.evType, body.resource)]

\* json.Unmarshal(body, m) that insists on an event id
unmarshalMetadataStrict(body) ==
    [err |-> IF body.eventId \in {"bad", ""} THEN DecodeErr ELSE NoErr,
     m   |-> Metadata(IF body.eventId = "bad" THEN "" ELSE body.eventId,
                      body.evType, body.resource)]

\* json.Unmarshal(body, m) into a metadata.Metadata: the top-level keys
unmarshalMetadata(body) ==
    [err |-> IF body.eventId = "bad" THEN DecodeErr ELSE NoErr,
     m   |-> Metadata(IF body.eventId = "bad" THEN "" ELSE body.eventId,
                      body.evType, body.resource)]

\* getBackgroundEvent that takes any event with metadata, data or not
getBackgroundEventNoDataCheck(body, path) ==
    LET possible == unmarshalPossibleEvents(body) IN
    IF possible.err # NoErr THEN [md |-> NilMd, data |-> "nil", err |-> possible.err]
    ELSE IF ~possible.BackgroundEvent /\ possible.LegacyEvent
    THEN LET ev == ConvertLegacyEventToBackgroundEvent(
                       body, ExtractTopicFromRequestPath(path).topic)
         IN  [md |-> ev.md, data |-> ev.data, err |-> NoErr]
    ELSE IF ~possible.BackgroundEvent THEN NotBackground
    ELSE IF body.context = "present"
    THEN [md |-> Metadata(body.eventId, body.evType, body.resource),
          data |-> IF body.data = "value" THEN "value" ELSE "nil", err |-> NoErr]
    ELSE IF body.data # "value" THEN NotBackground
    ELSE LET u == unmarshalMetadata(body) IN
         IF u.err # NoErr THEN [md |-> NilMd, data |-> "nil", err |-> u.err]
         ELSE IF u.m.EventID = "" THEN NotBackground
         ELSE [md |-> u.m, data |-> "value", err |-> NoErr]

\* getBackgroundEvent: (metadata, data, err); (nil, nil, nil) when the body is
\* no background event.  A failed topic extraction is only a warning.
getBackgroundEvent(body, path) ==
    LET possible == unmarshalPossibleEvents(body) IN
    IF possible.err # NoErr THEN [md |-> NilMd, data |-> "nil", err |-> possible.err]
    ELSE IF ~possible.BackgroundEvent /\ possible.LegacyEvent
    THEN LET ev == ConvertLegacyEventToBackgroundEvent(
                       body, ExtractTopicFromRequestPath(path).topic)
         IN  [md |-> ev.md, data |-> ev.data, err |-> NoErr]
    ELSE IF ~possible.BackgroundEvent \/ body.data # "value" THEN NotBackground
    ELSE IF body.context = "present"
    THEN [md |-> Metadata(body.eventId, body.evType, body.resource),
          data |-> "value", err |-> NoErr]
    ELSE LET u == unmarshalMetadata(body) IN
         IF u.err # NoErr THEN [md |-> NilMd, data |-> "nil", err |-> u.err]
         ELSE IF u.m.EventID = "" THEN NotBackground
         ELSE [md |-> u.m, data |-> "value", err |-> NoErr]

\* fn(ctx, arg) of an event function: it returns nil or an error, or panics
callEventFn(x, beh) ==
    [x EXCEPT !.invoked = @ + 1,
              !.ctxSeen = IF x.hasDeadline THEN "yes" ELSE "no",
              !.panic = IF beh.outcome = "panic" THEN beh.panicVal ELSE ""]

\* runUserFunctionWithContext that reports a returned error as a crash.
runUserFunctionWithContextCrash(x, r, fits) ==
    IF ~fits
    THEN writeHTTPErrorResponse(x, 400, "crash",
            <<"Error: ">> \o DecodeErr \o <<", while converting event data: ", "data">>)
    ELSE LET called == callEventFn(x, r.beh)
             ret == IF called.panic = "" /\ r.beh.outcome = "error"
                    THEN writeHTTPErrorResponse(called, 500, "crash",
                                                fmtFunctionError(r.beh.errText))
                    ELSE called
         IN recoverPanic(ret, TRUE, UserExec, FALSE)

\* runUserFunctionWithContext: fits says whether data decodes into the
\* function's second parameter type.
runUserFunctionWithContext(x, r, fits) ==
    IF ~fits
    THEN writeHTTPErrorResponse(x, 400, "crash",
            <<"Error: ">> \o DecodeErr \o <<", while converting event data: ", "data">>)
    ELSE LET called == callEventFn(x, r.beh)
             ret == IF called.panic = "" /\ r.beh.outcome = "error"
                    THEN writeHTTPErrorResponse(called, 500, "error",
                                                fmtFunctionError(r.beh.errText))
                    ELSE called
         IN recoverPanic(ret, TRUE, UserExec, FALSE)

runUserFunction(x, r) == runUserFunctionWithContext(x, r, r.body.whole = "fit")

\* encodeData re-encodes decoded JSON, which cannot fail.
runBackgroundEvent(x, r, md, data) ==
    runUserFunctionWithContext(x, r, r.body.payload = "fit")

handleEventFunction(x, r) ==
    LET ev == getBackgroundEvent(r.body, URLPath(r.path)) IN
    IF ev.err # NoErr
    THEN writeHTTPErrorResponse(x, 400, "crash",
            <<"Error: ">> \o ev.err \o <<", parsing background event: ", "body">>)
    ELSE IF ev.data # "nil" /\ ~ev.md.isNil THEN runBackgroundEvent(x, r, ev.md, ev.data)
    ELSE runUserFunction(x, r)

\* The request is a well-formed CloudEvent.
shouldConvertCloudEventToBackgroundRequest(r) == r.body.ce = "yes"

ConvErr == <<"unable to convert CloudEvent">>

\* The request body is read and, when the event has a background equivalent,
\* replaced by {context: {...}, data}.
convertCloudEventToBackgroundRequest(body) ==
    IF body.conv = "ok"
    THEN [body |-> [body EXCEPT !.ce = "no", !.context = "present", !.data = "value",
                                !.legacy = "absent"],
          err |-> NoErr]
    ELSE [body |-> EmptyBody, err |-> ConvErr]

\* The context convertCloudEventToBackgroundRequest builds from the event's
\* attributes: the event id, the background type the CloudEvent type stands
\* for (the google.* one where two background types share it) and the
\* resource read back from the source "//" service "/" name.
convertCloudEventToBackgroundContext(ce) ==
    LET types   == {e[1] : e \in {t \in typeBackgroundToCloudEvent : t[2] = ce.type}}
        modern  == {t \in types : Head(t) \in {"google.pubsub", "google.storage"}}
        type    == IF modern # {} THEN CHOOSE t \in modern : TRUE
                   ELSE CHOOSE t \in types : TRUE
        service == ce.source[3]
        name    == SubSeq(ce.source, 5, Len(ce.source))
    IN  IF types = {} \/ Len(ce.source) < 5
           \/ SubSeq(ce.source, 1, 2) # <<"/", "/">> \/ ce.source[4] # "/"
        THEN NilMd
        ELSE Metadata(ce.id, type,
               IF service = "pubsub.googleapis.com"
               THEN Resource(service, name, <<>>,
                             "type.googleapis.com/google.pubsub.v1.PubsubMessage")
               ELSE IF service = "storage.googleapis.com"
               THEN Resource(service, name \o <<"/">> \o ce.subject, <<>>, "storage#object")
               ELSE Resource("", <<>>, name, ""))

wrapEventFunction(x0, r) ==
    LET x == setupRequestContext(x0)
        should == shouldConvertCloudEventToBackgroundRequest(r)
        conv == convertCloudEventToBackgroundRequest(r.body)
        x1 == IF should /\ conv.err # NoErr
              THEN writeHTTPErrorResponse(x, 400, "crash",
                      <<"error converting CloudEvent to Background Event: ">> \o conv.err)
              ELSE x
        r1 == IF should THEN [r EXCEPT !.body = conv.body] ELSE r
    IN flushLogs(handleEventFunction(x1, r1))

(***************************************************************************)
(* Typed adapter: the handler wrapTypedFunction returns                    *)
(***************************************************************************)
NilVal == [kind |-> "nil", text |-> <<>>]
ErrVal(text) == [kind |-> "error", text |-> text]
DataVal(json) == [kind |-> "data", text |-> json]

NilDeref == "runtime error: invalid memory address or nil pointer dereference"

\* json.Unmarshal(body, argVal.Interface()) into the struct argVal points to:
\* keys absent from the body leave their fields as they are, a value of the
\* wrong type is skipped and reported once the rest has been decoded.
Unmarshal(val, body) ==
    IF ~body.wf THEN [val |-> val, err |-> SyntaxErr]
    ELSE [val |-> [id |-> IF body.id \in {"absent", "bad"} THEN val.id ELSE body.id,
                   name |-> IF body.name \in {"absent", "bad"} THEN val.name
                            ELSE body.name],
          err |-> IF body.id = "bad" \/ body.name = "bad" THEN DecodeErr ELSE NoErr]

\* handleTypedReturn: reflect.TypeOf(firstVal) is nil for a nil interface
\* value, and calling AssignableTo on it panics.
handleTypedReturn(x, funcReturn) ==
    IF Len(funcReturn) = 0 THEN x
    ELSE LET errorVal == funcReturn[Len(funcReturn)]
             firstVal == funcReturn[1]
         IN IF errorVal.kind = "error"
            THEN writeHTTPErrorResponse(x, 500, "error", fmtFunctionError(errorVal.text))
            ELSE IF firstVal.kind = "nil" THEN [x EXCEPT !.panic = NilDeref]
            ELSE IF firstVal.kind = "data"
            THEN [x EXCEPT !.w = Write(@, Sprintf(firstVal.text))]
            ELSE x

\* reflect.ValueOf(fn).Call(argVal.Elem()): the function gets a copy of the struct
callTypedFn(x, beh) ==
    [x EXCEPT !.invoked = @ + 1,
              !.argSeen = x.shared,
              !.panic = IF beh.outcome = "panic" THEN beh.panicVal ELSE ""]

\* wrapTypedFunction that calls the function whatever the decoder said.
wrapTypedFunctionIgnoreDecodeError(x, r) ==
    LET dec == Unmarshal(x.shared, r.body)
        x1 == [x EXCEPT !.shared = dec.val]
        called == callTypedFn(x1, r.beh)
        ret == IF called.panic = "" THEN handleTypedReturn(called, r.beh.returns)
               ELSE called
    IN recoverPanic(ret, TRUE, UserExec, FALSE)

wrapTypedFunction(x, r) ==
    LET dec == Unmarshal(x.shared, r.body)
        x1 == [x EXCEPT !.shared = dec.val]
    IN IF dec.err # NoErr
       THEN writeHTTPErrorResponse(x1, 400, "crash",
               <<"Error while converting input data. ">> \o dec.err)
       ELSE LET called == callTypedFn(x1, r.beh)
                ret == IF called.panic = ""
                       THEN handleTypedReturn(called, r.beh.returns)
                       ELSE called
            IN recoverPanic(ret, TRUE, UserExec, FALSE)

(***************************************************************************)
(* CloudEvent adapter: the handler wrapCloudEventFunction returns          *)
(***************************************************************************)
NoCE == [id |-> "", type |-> "", source |-> <<>>, subject |-> <<>>]

\* createCloudEventRequest that answers an unknown event type with 500
createCloudEventRequestServerError(body, path) ==
    LET ev == getBackgroundEvent(body, path)
        rc(code, err, p) == [rc |-> code, err |-> err, panicked |-> p, ce |-> NoCE]
        known == {e \in typeBackgroundToCloudEvent : e[1] = ev.md.EventType}
    IN IF ev.err # NoErr
       THEN rc(415, <<"parsing background event body ", "body", ": ">> \o ev.err, FALSE)
       ELSE IF ev.md.isNil \/ ev.data = "nil"
       THEN rc(415, <<"unable to extract background event from ", "body">>, FALSE)
       ELSE IF known = {}
       THEN rc(500, <<"unable to find CloudEvent equivalent event type for ">>
                    \o ev.md.EventType, FALSE)
       ELSE rc(200, NoErr, FALSE)

\* createCloudEventRequest: (status, err, panicked, the CloudEvent the body is
\* replaced with); the panic is the nil dereference of md.Resource.  The
\* source is "//" service "/" resource.  The data payload has no uid, so a
\* Firebase Auth event gets no subject of its own.
createCloudEventRequest(body, path) ==
    LET ev == getBackgroundEvent(body, path)
        rc(code, err, p) == [rc |-> code, err |-> err, panicked |-> p, ce |-> NoCE]
        known == {e \in typeBackgroundToCloudEvent : e[1] = ev.md.EventType}
    IN IF ev.err # NoErr
       THEN rc(415, <<"parsing background event body ", "body", ": ">> \o ev.err, FALSE)
       ELSE IF ev.md.isNil \/ ev.data = "nil"
       THEN rc(415, <<"unable to extract background event from ", "body">>, FALSE)
       ELSE IF known = {}
       THEN rc(415, <<"unable to find CloudEvent equivalent event type for ">>
                    \o ev.md.EventType, FALSE)
       ELSE IF ev.md.Resource.isNil THEN rc(0, NoErr, TRUE)
       ELSE LET t        == (CHOOSE e \in known : TRUE)[2]
                inferred == {e \in serviceBackgroundToCloudEvent :
                                e[1] = Head(ev.md.EventType)}
                service  == IF ev.md.Resource.Service # "" THEN ev.md.Resource.Service
                            ELSE IF inferred = {} THEN ""
                            ELSE (CHOOSE e \in inferred : TRUE)[2]
                resource == IF ev.md.Resource.Name # <<>> THEN ev.md.Resource.Name
                            ELSE ev.md.Resource.RawPath
                split    == splitResource(service, resource)
            IN IF service = ""
               THEN rc(415, <<"unable to find CloudEvent equivalent service for ">>
                            \o ev.md.EventType, FALSE)
               ELSE IF split.err # NoErr THEN rc(415, split.err, FALSE)
               ELSE [rc |-> 200, err |-> NoErr, panicked |-> FALSE,
                     ce |-> [id      |-> ev.md.EventID,
                             type    |-> t,
                             source  |-> <<"/", "/", service, "/">> \o split.resource,
                             subject |-> split.subject]]

\* logErrFn: the function the CloudEvents receiver invokes.  The deferred
\* recoverPanic(nil, ..., true) logs a panic and raises it again.
logErrFn(x, beh) ==
    LET called == callEventFn(x, beh)
        logged == IF called.panic = "" /\ beh.outcome = "error"
                  THEN [called EXCEPT !.stderr = @ \o Sprintf(fmtFunctionError(beh.errText))]
                  ELSE called
    IN recoverPanic(logged, FALSE, UserExec, TRUE)

\* The receive handler of the CloudEvents SDK: an invalid event is answered
\* 400 without a call; a panic of the invoked function is recovered and, like
\* a returned error, answered 500 with an empty body; success is 200.
ceHandler(x, r, valid) ==
    IF ~valid THEN [x EXCEPT !.w = Write(WriteHeader(@, 400), <<"invalid event">>)]
    ELSE LET ran == logErrFn(x, r.beh)
             failed == ran.panic # "" \/ r.beh.outcome = "error"
         IN [ran EXCEPT !.w = WriteHeader(@, IF failed THEN 500 ELSE 200),
                        !.reraised = ran.panic # "",
                        !.panic = ""]

\* convertBackgroundToCloudEvent(h): a request that is no CloudEvent is
\* converted first.
convertBackgroundToCloudEvent(x, r) ==
    IF r.body.ce = "no"
    THEN LET c == createCloudEventRequest(r.body, URLPath(r.path)) IN
         IF c.panicked THEN [x EXCEPT !.panic = NilDeref]
         ELSE IF c.err # NoErr THEN writeHTTPErrorResponse(x, c.rc, "crash", c.err)
         ELSE ceHandler(x, r, TRUE)
    ELSE ceHandler(x, r, r.body.ce = "yes")

(***************************************************************************)
(* Serving: http.ServeMux routes a request to the handler bound to the     *)
(* longest matching pattern and the handler answers it                     *)
(***************************************************************************)
PanicVals == {"boom", "secret"}
ErrTexts == {<<"E">>, <<"%", NL>>}
JSONVals == {<<"1">>, <<"\"", "%", "\"">>}

WH(code) == [op |-> "WriteHeader", code |-> code, data |-> <<>>]
WR(data) == [op |-> "Write", code |-> 0, data |-> data]
HTTPWrites == {<<>>, <<WH(201)>>, <<WR(<<"hi">>)>>}

Panics == {[NoBeh EXCEPT !.outcome = "panic", !.panicVal = v] : v \in PanicVals}
HTTPBehs == {[b EXCEPT !.writes = ws] : b \in {NoBeh} \cup Panics, ws \in HTTPWrites}
EventBehs == {NoBeh} \cup Panics \cup
             {[NoBeh EXCEPT !.outcome = "error", !.errText = e] : e \in ErrTexts}

RetVals(t) == IF t = "error" THEN {NilVal} \cup {ErrVal(e) : e \in ErrTexts}
              ELSE {DataVal(j) : j \in JSONVals}
Returns(outs) ==
    IF Len(outs) = 0 THEN {<<>>}
    ELSE IF Len(outs) = 1 THEN {<<a>> : a \in RetVals(outs[1])}
    ELSE {<<a, b>> : a \in RetVals(outs[1]), b \in RetVals(outs[2])}
TypedBehs(fn) == Panics \cup {[NoBeh EXCEPT !.returns = rs] : rs \in Returns(fn.outs)}

TypedBodies == {[NoBody EXCEPT !.id = i, !.name = n] :
                   i \in {"absent", "1"}, n \in {"absent", "x", "bad"}}
               \cup {EmptyBody}
EventBodies ==
    {[NoBody EXCEPT !.whole = f] : f \in {"fit", "misfit"}} \cup
    {EmptyBody, [NoBody EXCEPT !.context = "bad"]} \cup
    {[NoBody EXCEPT !.data = "value", !.context = "present", !.eventId = "e1",
                    !.payload = f] : f \in {"fit", "misfit"}} \cup
    {[NoBody EXCEPT !.data = "value", !.context = "present", !.eventId = "e1",
                    !.evType = t, !.resource = rs] :
        t \in {<<"google.storage", ".object.finalize">>, <<"google.invalid", ".type">>},
        rs \in {Resource("", StorageName, <<>>, ""), NilResource,
                Resource("", <<>>, StorageName, ""),
                Resource("storage.googleapis.com", TopicName, <<>>, "")}} \cup
    {[NoBody EXCEPT !.data = d, !.eventId = e] :
        d \in {"null", "value"}, e \in {"", "e1", "bad"}} \cup
    {[NoBody EXCEPT !.legacy = "present", !.msgId = "m1", !.payload = f] :
        f \in {"fit", "misfit"}} \cup
    {[NoBody EXCEPT !.ce = "yes", !.conv = v, !.payload = f] :
        v \in {"ok", "fail"}, f \in {"fit", "misfit"}} \cup
    {[NoBody EXCEPT !.ce = "invalid"]}

\* The pattern a request path is routed to ("" when none matches): an exact
\* match first, then the subtree pattern "/".
muxMatch(mux, path) ==
    IF path \in DOMAIN mux THEN path
    ELSE IF "/" \in DOMAIN mux THEN "/" ELSE ""

\* The handler has returned (or a panic has left it): the client gets the
\* response, the typed handler's struct keeps what was decoded into it.
Answer(r, pat, x) ==
    /\ req' = r
    /\ resp' = IF x.panic # "" THEN Aborted ELSE Received(x.w)
    /\ stderr' = x.stderr
    /\ invoked' = x.invoked
    /\ argSeen' = x.argSeen
    /\ ctxDeadline' = x.ctxSeen
    /\ escaped' = (x.panic # "" \/ x.reraised)
    /\ prev' = IF req = NoReq THEN "none"
               ELSE IF invoked > 0 /\ req.beh.outcome = "panic" THEN "panic"
               ELSE "other"
    /\ inputType' = IF pat \in DOMAIN inputType
                    THEN [inputType EXCEPT ![pat] = x.shared] ELSE inputType
    /\ UNCHANGED <<regVars, envVars, srvVars, pure, logger>>

Request(kind, path, body, beh) == [kind |-> kind, path |-> path, body |-> body, beh |-> beh]

ServeHTTP ==
    /\ phase = "serving"
    /\ \E path \in ReqPaths, beh \in HTTPBehs :
         LET pat == muxMatch(server, path)
             r == Request("HTTP", path, NoBody, beh)
         IN /\ pat # "" /\ server[pat].kind = "HTTP"
            /\ Answer(r, pat, wrapHTTPFunction(NewExec(ZeroStruct), r))

ServeEvent ==
    /\ phase = "serving"
    /\ \E path \in ReqPaths, body \in EventBodies, beh \in EventBehs :
         LET pat == muxMatch(server, path)
             r == Request("Event", path, body, beh)
         IN /\ pat # "" /\ server[pat].kind = "Event"
            /\ Answer(r, pat, wrapEventFunction(NewExec(ZeroStruct), r))

ServeTyped ==
    /\ phase = "serving"
    /\ \E path \in ReqPaths, body \in TypedBodies :
         LET pat == muxMatch(server, path) IN
         /\ pat # "" /\ server[pat].kind = "Typed"
         /\ \E beh \in TypedBehs(server[pat].fn) :
              LET r == Request("Typed", path, body, beh) IN
              Answer(r, pat, wrapTypedFunction(NewExec(inputType[pat]), r))

ServeCloudEvent ==
    /\ phase = "serving"
    /\ \E path \in ReqPaths, body \in EventBodies, beh \in EventBehs :
         LET pat == muxMatch(server, path)
             r == Request("CloudEvent", path, body, beh)
         IN /\ pat # "" /\ server[pat].kind = "CloudEvent"
            /\ Answer(r, pat, convertBackgroundToCloudEvent(NewExec(ZeroStruct), r))

\* No pattern matches: the mux answers 404 itself.
ServeNotFound ==
    /\ phase = "serving"
    /\ \E path \in ReqPaths :
         /\ muxMatch(server, path) = ""
         /\ Answer(Request("none", path, NoBody, NoBeh), "",
                   [NewExec(ZeroStruct) EXCEPT
                       !.w = Write(WriteHeader(@, 404), <<"404 page not found", NL>>)])

(***************************************************************************)
(* Structured logging: the writer LogWriter returns for a request that     *)
(* carries logging ids.  Bytes are tokens; NL is the line feed.            *)
(***************************************************************************)
CR == "\r"

\* What one Write call is given: byte sequences of at most MaxChunk bytes
MaxChunk == 2
MaxWrites == 3
LogBytes == {"a", NL}
Outputs == UNION {[1..n -> LogBytes] : n \in 0..MaxChunk}

loggingIDs == [trace |-> "t1", spanID |-> "s1", executionID |-> "e1"]

\* bufio.dropCR
dropCR(data) ==
    IF Len(data) > 0 /\ data[Len(data)] = CR THEN SubSeq(data, 1, Len(data) - 1) ELSE data

\* bufio.ScanLines(data, false): the first line of data without its end, or
\* a nil token when data holds no line feed
ScanLines(data) ==
    LET nl == {i \in 1..Len(data) : data[i] = NL} IN
    IF nl # {}
    THEN LET i == CHOOSE j \in nl : \A k \in nl : j <= k IN
         [advance |-> i, token |-> dropCR(SubSeq(data, 1, i - 1)), isNil |-> FALSE]
    ELSE [advance |-> 0, token |-> <<>>, isNil |-> TRUE]

\* One event on the sink: the JSON object and its line feed
writeStructuredLog(sink, ids, message) ==
    Append(sink, [message |-> message, trace |-> ids.trace, spanID |-> ids.spanID,
                  labels |-> IF ids.executionID # "" THEN ids.executionID ELSE ""])

\* &structuredLogWriter{w: os.Stderr, loggingIDs: *loggingIDs}, nothing written
NewLogger == [buf |-> <<>>, sink |-> <<>>, outputs |-> <<>>]

\* The scanning loop of Write: one event per line found in buf
RECURSIVE scanLoop(_, _, _)
scanLoop(buf, sink, wroteLines) ==
    LET s == ScanLines(buf) IN
    IF s.isNil
    THEN [buf |-> buf, sink |-> sink, wroteLines |-> wroteLines]
    ELSE scanLoop(SubSeq(buf, s.advance + 1, Len(buf)),
                  writeStructuredLog(sink, loggingIDs, s.token), wroteLines + 1)

\* Write that forgets the bytes after the last line feed
structuredLogWriterWriteDropRest(w, output) ==
    LET l == scanLoop(w.buf \o output, w.sink, 0) IN
    [w EXCEPT !.buf = <<>>, !.sink = l.sink, !.outputs = Append(w.outputs, output)]

\* (*structuredLogWriter).Write
structuredLogWriterWrite(w, output) ==
    LET appended == w.buf \o output
        l == scanLoop(appended, w.sink, 0) IN
    [w EXCEPT !.buf = IF l.wroteLines > 0 THEN l.buf ELSE appended,
              !.sink = l.sink,
              !.outputs = Append(w.outputs, output)]

WriteLog ==
    /\ Len(logger.outputs) < MaxWrites
    /\ \E output \in Outputs : logger' = structuredLogWriterWrite(logger, output)
    /\ UNCHANGED <<regVars, envVars, srvVars, reqVars, pure>>

(***************************************************************************)
(* Initial state and the registry/dispatcher specification                 *)
(***************************************************************************)
\* No conversion function has been called.
NoPure == [fn |-> "none", in |-> <<>>, out |-> <<>>]

InitRequestVars ==
    /\ inputType = <<>>
    /\ req = NoReq
    /\ resp = NoResp
    /\ stderr = <<>>
    /\ invoked = 0
    /\ argSeen = ZeroStruct
    /\ escaped = FALSE
    /\ prev = "none"
    /\ ctxDeadline = "none"
    /\ pure = NoPure
    /\ logger = NewLogger

\* A fresh process: registry.New(), nothing registered, no server.
Init ==
    /\ functions = New.functions
    /\ functionsWithoutNames = New.functionsWithoutNames
    /\ nCalls = 0
    /\ lastCall = NoCall
    /\ target \in Targets
    /\ kService = FALSE
    /\ timeoutEnv = <<>>
    /\ phase = "registering"
    /\ server = NoServer
    /\ initErr = NoErr
    /\ InitRequestVars

Next ==
    \/ RegisterHTTP
    \/ RegisterCloudEvent
    \/ RegisterEvent
    \/ RegisterTyped
    \/ RegisterEventFunctionContext
    \/ StartHostPort

Spec == Init /\ [][Next]_vars

\* A value that is no function, such as the int 42, passed as interface{}
NonFunc == [id |-> "42", isFunc |-> FALSE, ins |-> <<>>, outs |-> <<>>]

\* Registration calls with any value the parameter types admit: a nil
\* function for the typed parameters of RegisterHTTP and RegisterCloudEvent,
\* nil or any value for the interface{} parameters of the other two.
RegisterHTTPValue ==
    \E fn \in {Callback("http1", <<"T", "T">>, <<>>), NilFn}, o \in OptionLists :
        Call("RegisterHTTP", "HTTPFn", fn, o)

RegisterCloudEventValue ==
    \E fn \in CloudEventFns \cup {NilFn}, o \in OptionLists :
        Call("RegisterCloudEvent", "CloudEventFn", fn, o)

RegisterEventValue ==
    \E fn \in {Callback("ev", <<"ctx", "T">>, <<"error">>), NilFn, NonFunc},
       o \in OptionLists :
        Call("RegisterEvent", "EventFn", fn, o)

RegisterTypedValue ==
    \E fn \in TypedFns \cup {NilFn, NonFunc}, o \in OptionLists :
        Call("RegisterTyped", "TypedFn", fn, o)

NextValues ==
    \/ RegisterHTTPValue
    \/ RegisterCloudEventValue
    \/ RegisterEventValue
    \/ RegisterTypedValue
    \/ StartHostPort

SpecValues == Init /\ [][NextValues]_vars

(***************************************************************************)
(* The serving specification: one function of any kind and any signature   *)
(* has been registered under the name "f"; the server is started and       *)
(* answers requests.                                                       *)
(***************************************************************************)
ServeRegs == {<<"HTTPFn", f>> : f \in HTTPFns} \cup
             {<<"CloudEventFn", f>> : f \in CloudEventFns} \cup
             {<<"EventFn", f>> : f \in AllEventFns} \cup
             {<<"TypedFn", f>> : f \in AllTypedFns}

InitServe ==
    /\ \E reg \in ServeRegs :
         LET res == register(New, RegisteredFunction(reg[1], reg[2]), <<WithName("f")>>) IN
         /\ functions = res.functions
         /\ functionsWithoutNames = res.functionsWithoutNames
         /\ lastCall = [api |-> "Register", fn |-> reg[2], name |-> "f", path |-> "",
                        err |-> res.err]
    /\ nCalls = 1
    /\ target \in {"", "f"}
    /\ kService \in BOOLEAN
    /\ timeoutEnv = <<>>
    /\ phase = "registering"
    /\ server = NoServer
    /\ initErr = NoErr
    /\ InitRequestVars

NextServe ==
    \/ StartHostPort
    \/ ServeHTTP
    \/ ServeEvent
    \/ ServeTyped
    \/ ServeCloudEvent
    \/ ServeNotFound

SpecServe == InitServe /\ [][NextServe]_vars

(***************************************************************************)
(* The environment specification: an HTTP or a CloudEvent function has     *)
(* been registered under the name "f" and CLOUD_RUN_TIMEOUT_SECONDS is     *)
(* unset, an integer, or something else.                                   *)
(***************************************************************************)
TimeoutValues == {<<>>, <<"a", "a", "a">>, <<"3", "6", "0", "0">>, <<"1">>,
                  <<"-", "1">>, <<"1", ".", "5">>}

InitEnv ==
    /\ \E reg \in {<<"HTTPFn", Callback("http1", <<"T", "T">>, <<>>)>>} \cup
                   {<<"CloudEventFn", f>> : f \in CloudEventFns} :
         LET res == register(New, RegisteredFunction(reg[1], reg[2]), <<WithName("f")>>) IN
         /\ functions = res.functions
         /\ functionsWithoutNames = res.functionsWithoutNames
         /\ lastCall = [api |-> "Register", fn |-> reg[2], name |-> "f", path |-> "",
                        err |-> res.err]
    /\ nCalls = 1
    /\ target \in {"", "f"}
    /\ kService = FALSE
    /\ timeoutEnv \in TimeoutValues
    /\ phase = "registering"
    /\ server = NoServer
    /\ initErr = NoErr
    /\ InitRequestVars

NextEnv ==
    \/ StartHostPort
    \/ ServeHTTP
    \/ ServeCloudEvent
    \/ ServeNotFound

SpecEnv == InitEnv /\ [][NextEnv]_vars

(***************************************************************************)
(* The conversion specification: the pure functions of the event           *)
(* conversion are applied to inputs drawn from bounded sets and the result *)
(* is recorded in pure.                                                    *)
(***************************************************************************)
MaxPath == 7

RECURSIVE SeqsUpTo(_, _)
SeqsUpTo(A, n) ==
    IF n = 0 THEN {<<>>}
    ELSE LET shorter == SeqsUpTo(A, n - 1)
         IN  shorter \cup {Append(q, a) : q \in {r \in shorter : Len(r) = n - 1}, a \in A}

\* URL request paths: an exhaustive core, bare or between a host prefix and
\* trailing slashes with a query string
Paths ==
    {fr[1] \o core \o fr[2] :
        fr   \in {<<  <<>>, <<>>  >>, <<  <<"h", "/">>, <<"/", "/", "?", "x">>  >>},
        core \in SeqsUpTo({"projects", "/", "topics", "a"}, MaxPath)}

Services == {"firebaseauth.googleapis.com", "firebase.googleapis.com",
             "firebasedatabase.googleapis.com", "firestore.googleapis.com",
             "pubsub.googleapis.com", "storage.googleapis.com", "not.a.valid.service"}

Resources ==
    {pre \o <<"projects", "/", p, "/", k>> \o tail :
        pre  \in {<<>>, <<"x">>},
        p    \in {"_", "p"},
        k    \in {"events", "instances", "databases", "buckets", "topics"},
        tail \in {<<>>, <<"/">>} \cup
                 UNION {{<<"/", n>>, <<"/", n, "/">>} \cup
                        UNION {{<<"/", n, "/", k2>>, <<"/", n, "/", k2, "/">>,
                                <<"/", n, "/", k2, "/", "a">>,
                                <<"/", n, "/", k2, "/", "a", "/", "b">>}
                               : k2 \in {"refs", "documents", "objects", "x"}}
                       : n \in {"b", "(default)"}}}

CallExtractTopicFromRequestPath ==
    /\ pure = NoPure
    /\ \E path \in Paths :
         pure' = [fn |-> "ExtractTopicFromRequestPath", in |-> path,
                  out |-> ExtractTopicFromRequestPath(path)]
    /\ UNCHANGED <<regVars, envVars, srvVars, reqVars, logger>>

CallSplitResource ==
    /\ pure = NoPure
    /\ \E service \in Services, resource \in Resources :
         pure' = [fn |-> "splitResource", in |-> <<service, resource>>,
                  out |-> splitResource(service, resource)]
    /\ UNCHANGED <<regVars, envVars, srvVars, reqVars, logger>>

\* Request bodies by what the decoders make of them, every combination
PureBodies ==
    {[NoBody EXCEPT !.wf = w, !.data = d, !.context = c, !.eventId = e,
                    !.legacy = l, !.msgId = "m1", !.resource = rs] :
        w \in BOOLEAN, d \in {"absent", "null", "value"},
        c \in {"absent", "present", "bad"}, e \in {"", "e1", "bad"},
        l \in {"absent", "present"},
        rs \in {NilResource, Resource("", <<>>, TopicName, "")}}

CallGetBackgroundEvent ==
    /\ pure = NoPure
    /\ \E body \in PureBodies, path \in ReqPaths :
         pure' = [fn |-> "getBackgroundEvent", in |-> <<body, URLPath(path)>>,
                  out |-> getBackgroundEvent(body, URLPath(path))]
    /\ UNCHANGED <<regVars, envVars, srvVars, reqVars, logger>>

\* Background events with a context, of every type of the type table
RoundTripBodies ==
    {[NoBody EXCEPT !.data = "value", !.context = "present", !.eventId = e,
                    !.evType = t, !.resource = rs] :
        e  \in {"e1", "e2"},
        t  \in {ty[1] : ty \in typeBackgroundToCloudEvent} \cup {<<"google.invalid", ".type">>},
        rs \in {Resource(pubsubService, TopicName, <<>>, pubsubMessageType),
                Resource(pubsubService, <<"projects", "/", "q", "/", "topics", "/", "u">>,
                         <<>>, pubsubMessageType),
                Resource("", StorageName, <<>>, ""),
                Resource("", <<>>, TopicName, "")}}

\* A background event is converted to a CloudEvent and that one back.
CallRoundTrip ==
    /\ pure = NoPure
    /\ \E body \in RoundTripBodies :
         LET c == createCloudEventRequest(body, URLPath("/f")) IN
         pure' = [fn |-> "roundTrip", in |-> body,
                  out |-> [rc |-> c.rc, ce |-> c.ce,
                           md |-> IF c.rc = 200
                                  THEN convertCloudEventToBackgroundContext(c.ce)
                                  ELSE NilMd]]
    /\ UNCHANGED <<regVars, envVars, srvVars, reqVars, logger>>

\* The characters of the first chunk of an event type or of a key of the
\* service table, as tokens: "/" and "." and the runs between them.
Spell(chunk) ==
    CASE chunk = "providers/" -> <<"providers", "/">>
      [] chunk = "providers/cloud.firestore/" ->
            <<"providers", "/", "cloud", ".", "firestore", "/">>
      [] chunk = "providers/google.firebase.analytics/" ->
            <<"providers", "/", "google", ".", "firebase", ".", "analytics", "/">>
      [] chunk = "providers/firebase.auth/" ->
            <<"providers", "/", "firebase", ".", "auth", "/">>
      [] chunk = "providers/google.firebase.database/" ->
            <<"providers", "/", "google", ".", "firebase", ".", "database", "/">>
      [] chunk = "providers/cloud.pubsub/" ->
            <<"providers", "/", "cloud", ".", "pubsub", "/">>
      [] chunk = "providers/cloud.storage/" ->
            <<"providers", "/", "cloud", ".", "storage", "/">>
      [] chunk = "google.pubsub" -> <<"google", ".", "pubsub">>
      [] chunk = "google.storage" -> <<"google", ".", "storage">>
      [] OTHER -> <<chunk>>

\* strings.HasPrefix(md.EventType, bService), on the characters
HasPrefix(type, bService) ==
    LET str == Spell(Head(type)) \o Tail(type)
        pre == Spell(bService)
    IN Len(pre) <= Len(str) /\ SubSeq(str, 1, Len(pre)) = pre

\* The loop of createCloudEventRequest over the service table, which the map
\* iteration yields in the given order: every matching key overwrites service.
RECURSIVE inferService(_, _)
inferService(type, order) ==
    IF order = <<>> THEN ""
    ELSE LET before == inferService(type, SubSeq(order, 1, Len(order) - 1))
             last   == order[Len(order)]
         IN IF HasPrefix(type, last[1]) THEN last[2] ELSE before

RECURSIVE Enumeration(_)
Enumeration(S) ==
    IF S = {} THEN <<>>
    ELSE LET x == CHOOSE y \in S : TRUE IN <<x>> \o Enumeration(S \ {x})

Reverse(seq) == [i \in 1..Len(seq) |-> seq[Len(seq) + 1 - i]]

Rotations(seq) ==
    {SubSeq(seq, k + 1, Len(seq)) \o SubSeq(seq, 1, k) : k \in 0..(Len(seq) - 1)}

\* Iteration orders of the service table: for any two keys, one order that
\* yields the first before the second and one that yields it after.
ServiceOrders ==
    LET e == Enumeration(serviceBackgroundToCloudEvent) IN
    Rotations(e) \cup Rotations(Reverse(e))

CallInferService ==
    /\ pure = NoPure
    /\ \E type \in {ty[1] : ty \in typeBackgroundToCloudEvent}
                    \cup {<<"google.invalid", ".type">>},
          order \in ServiceOrders :
         pure' = [fn |-> "inferService", in |-> <<type, order>>,
                  out |-> inferService(type, order)]
    /\ UNCHANGED <<regVars, envVars, srvVars, reqVars, logger>>

InitPure ==
    /\ functions = New.functions
    /\ functionsWithoutNames = New.functionsWithoutNames
    /\ nCalls = 0
    /\ lastCall = NoCall
    /\ target = ""
    /\ kService = FALSE
    /\ timeoutEnv = <<>>
    /\ phase = "registering"
    /\ server = NoServer
    /\ initErr = NoErr
    /\ InitRequestVars

NextPure ==
    \/ CallExtractTopicFromRequestPath
    \/ CallSplitResource
    \/ CallGetBackgroundEvent
    \/ CallRoundTrip
    \/ CallInferService

SpecPure == InitPure /\ [][NextPure]_vars

\* The logging specification: Write calls on one structured log writer
NextLog == WriteLog

SpecLog == InitPure /\ [][NextLog]_vars

(***************************************************************************)
(* Properties                                                              *)
(***************************************************************************)
Contains(seq, c) == \E i \in DOMAIN seq : seq[i] = c
IsPrefix(a, b) == Len(a) <= Len(b) /\ SubSeq(b, 1, Len(a)) = a
Suffix(seq, n) == SubSeq(seq, Len(seq) - n + 1, Len(seq))
CallbackOf(f) == IF f.HTTPFn # NilFn THEN f.HTTPFn
                 ELSE IF f.CloudEventFn # NilFn THEN f.CloudEventFn
                 ELSE IF f.EventFn # NilFn THEN f.EventFn
                 ELSE f.TypedFn
Started == phase # "registering"
UserPanicked == req.beh.outcome = "panic" /\ invoked > 0

\* C1: a registration under a non-empty name that is already registered fails
\* with the duplicate-name error, and GetRegisteredFunction(name) afterwards
\* returns the first registration's entry unchanged (callback, name, path).
C1_DuplicateNameRejected ==
    [][\A n \in DOMAIN functions :
          (nCalls' = nCalls + 1 /\ lastCall'.name = n)
          => /\ lastCall'.err = ErrDuplicate(n)
             /\ GetRegisteredFunction(
                    [functions |-> functions',
                     functionsWithoutNames |-> functionsWithoutNames'], n)
                = GetRegisteredFunction(Registry, n)
             /\ GetRegisteredFunction(Registry, n).ok]_vars

\* A second registration of another callback under a registered name was rejected.
C1_Witness ==
    /\ lastCall.name \in DOMAIN functions
    /\ lastCall.err = ErrDuplicate(lastCall.name)
    /\ CallbackOf(functions[lastCall.name]) # lastCall.fn
    /\ functions[lastCall.name].Name = lastCall.name

\* C2 (amended): an HTTP function that panics before it has written anything
\* to the response is answered 500 with X-Google-Status crash, the panic does
\* not leave the handler, and the request after a panic is answered with
\* exactly what the function wrote for it.
C2_PanicBeforeWriteIs500 ==
    /\ (req.kind = "HTTP" /\ UserPanicked /\ req.beh.writes = <<>>)
       => /\ resp.status = 500 /\ resp.hdr = "crash"
          /\ ~escaped /\ phase = "serving"
    /\ (req.kind = "HTTP" /\ prev = "panic" /\ req.beh.outcome = "ok")
       => /\ invoked = 1
          /\ resp = Received(userWrites(NewWriter, req.beh.writes))

\* A panic answered 500/crash by a server that had already recovered one.
C2_Witness ==
    /\ req.kind = "HTTP" /\ UserPanicked /\ req.beh.writes = <<>>
    /\ prev = "panic"
    /\ resp.status = 500 /\ resp.hdr = "crash"

\* C2 as stated: an HTTP function that panics at any point is answered 500
\* with X-Google-Status crash.
C2_PanicAnywhereIs500 ==
    (req.kind = "HTTP" /\ UserPanicked) => (resp.status = 500 /\ resp.hdr = "crash")

\* C3 (amended): a panic of an HTTP function that has written nothing, of an
\* event function or of a typed function is recovered by the adapter and
\* answered 500 with X-Google-Status crash; a panic of an HTTP function that
\* has already written is recovered too; a panic of a CloudEvent function is
\* logged and raised again by the adapter, and the request is answered 500
\* without the X-Google-Status header.
C3_PanicRecoveredPerKind ==
    UserPanicked =>
        IF req.kind = "CloudEvent"
        THEN escaped /\ resp.status = 500 /\ resp.hdr = ""
        ELSE IF req.kind = "HTTP" /\ req.beh.writes # <<>>
        THEN ~escaped
        ELSE ~escaped /\ resp.status = 500 /\ resp.hdr = "crash"

\* A CloudEvent function panicked and the adapter raised the panic again.
C3_Witness ==
    /\ req.kind = "CloudEvent" /\ UserPanicked
    /\ escaped /\ resp.status = 500 /\ Contains(stderr, "panic message: ")

\* C3 as stated: for every kind the panic stays inside the adapter and the
\* answer is 500 with X-Google-Status crash.
C3_PanicRecoveredEveryKind ==
    UserPanicked => (~escaped /\ resp.status = 500 /\ resp.hdr = "crash")

\* The error of decoding the request for the function's parameter, NoErr when
\* it decodes.
DecodeError(r) ==
    IF r.kind = "Typed" THEN Unmarshal(ZeroStruct, r.body).err
    ELSE LET b == IF shouldConvertCloudEventToBackgroundRequest(r)
                  THEN convertCloudEventToBackgroundRequest(r.body).body
                  ELSE r.body
             ev == getBackgroundEvent(b, URLPath(r.path))
         IN IF ev.err # NoErr THEN ev.err
            ELSE IF ev.data # "nil" /\ ~ev.md.isNil
            THEN IF b.payload = "fit" THEN NoErr ELSE DecodeErr
            ELSE IF b.whole = "fit" THEN NoErr ELSE DecodeErr

\* C4: when the body of a request to a typed or an event function cannot be
\* decoded into the function's parameter type, the answer is 400 with
\* X-Google-Status crash, its message names the decode error, and the user
\* function is not called.
C4_DecodeFailureIs400 ==
    (req.kind \in {"Typed", "Event"} /\ DecodeError(req) # NoErr)
    => /\ resp.status = 400 /\ resp.hdr = "crash"
       /\ Contains(resp.body, DecodeError(req)[1])
       /\ invoked = 0

\* A typed request with a field of the wrong type was refused.
C4_Witness ==
    /\ req.kind = "Typed" /\ req.body.name = "bad"
    /\ resp.status = 400 /\ invoked = 0

\* The error the user function returned: the last return value of a typed
\* function, the return value of an event function; NoErr when nil.
ReturnedError(r) ==
    IF r.kind = "Typed"
    THEN IF Len(r.beh.returns) > 0 /\ r.beh.returns[Len(r.beh.returns)].kind = "error"
         THEN r.beh.returns[Len(r.beh.returns)].text ELSE NoErr
    ELSE IF r.beh.outcome = "error" THEN r.beh.errText ELSE NoErr

FormattedError(err) ==
    IF err[Len(err)] = NL THEN <<"Function error: ">> \o err
    ELSE <<"Function error: ">> \o err \o <<NL>>

\* C5: when a typed or an event function returns a non-nil error, the answer
\* is 500 with X-Google-Status error and the body is the formatted error text
\* ending in a newline; the same text is written to the error stream.
C5_ReturnedErrorIs500 ==
    (req.kind \in {"Typed", "Event"} /\ invoked > 0 /\ req.beh.outcome # "panic"
        /\ ReturnedError(req) # NoErr)
    => /\ resp.status = 500 /\ resp.hdr = "error"
       /\ resp.body = FormattedError(ReturnedError(req))
       /\ resp.body[Len(resp.body)] = NL
       /\ IsPrefix(resp.body, stderr)

\* An event function returned an error that did not end in a newline.
C5_Witness ==
    /\ req.kind = "Event" /\ invoked > 0 /\ req.beh.outcome = "error"
    /\ req.beh.errText = <<"E">>
    /\ resp.hdr = "error"

\* C6 as stated: a typed function that returns without a non-nil error is
\* answered 200 without X-Google-Status, with its first return value
\* JSON-encoded as the body when that is a non-error value and with an empty
\* body when there is none.
C6_TypedSuccessIs200 ==
    (req.kind = "Typed" /\ invoked > 0 /\ req.beh.outcome # "panic"
        /\ ReturnedError(req) = NoErr)
    => /\ resp.status = 200 /\ resp.hdr = ""
       /\ resp.body = IF Len(req.beh.returns) > 0 /\ req.beh.returns[1].kind = "data"
                      THEN req.beh.returns[1].text ELSE <<>>

\* The function initServer resolves for a target: the one registered under
\* the name, else the last one registered without a name.
Resolved(t) ==
    IF t \in DOMAIN functions THEN <<functions[t]>>
    ELSE IF Len(functionsWithoutNames) > 0
    THEN <<functionsWithoutNames[Len(functionsWithoutNames)]>>
    ELSE <<>>

\* C7 as stated: with a target configured, exactly the resolved function is
\* bound at "/"; when there is none the start fails with the no-matching-
\* function error and no server.
C7_TargetBoundAtRoot ==
    (Started /\ target # "")
    => IF Resolved(target) # <<>>
       THEN /\ phase = "serving"
            /\ DOMAIN server = {"/"}
            /\ server["/"].fn = CallbackOf(Resolved(target)[1])
       ELSE phase = "failed" /\ initErr = ErrNoMatch(target) /\ server = NoServer

\* C8 as stated: with no target configured, every registered function, named
\* or not, is bound at its own Path.
C8_AllBoundAtTheirPaths ==
    (Started /\ target = "")
    => /\ phase = "serving"
       /\ \A n \in DOMAIN functions :
            /\ functions[n].Path \in DOMAIN server
            /\ server[functions[n].Path].fn = CallbackOf(functions[n])
       /\ \A i \in DOMAIN functionsWithoutNames :
            /\ functionsWithoutNames[i].Path \in DOMAIN server
            /\ server[functionsWithoutNames[i].Path].fn
                  = CallbackOf(functionsWithoutNames[i])

\* C9 as stated: RegisterEventFunctionContext returns a non-nil error
\* whenever fn does not have the event-function signature.
C9_InvalidSignatureRejected ==
    (lastCall.api = "RegisterEventFunctionContext"
        /\ validateEventFunction(lastCall.fn) # Ok)
    => lastCall.err # NoErr

\* func(context.Context, T) error
EventSignature(fn) ==
    /\ Len(fn.ins) = 2 /\ fn.ins[1] = "ctx"
    /\ Len(fn.outs) = 1 /\ fn.outs[1] = "error"

ContainsSeq(seq, t) ==
    \E i \in 0..(Len(seq) - Len(t)) : SubSeq(seq, i + 1, i + Len(t)) = t

\* C11 as stated: when a CloudEvent function returns a non-nil error the
\* answer is 500 with an empty body, and the error text is written to the
\* error stream.
C11_CloudEventErrorLogged ==
    (req.kind = "CloudEvent" /\ invoked > 0 /\ req.beh.outcome = "error")
    => /\ resp.status = 500
       /\ resp.body = <<>>
       /\ ContainsSeq(stderr, req.beh.errText)

\* C12 as stated: the context an HTTP or a CloudEvent function gets has a
\* deadline exactly when CLOUD_RUN_TIMEOUT_SECONDS parses as an integer, and
\* the function is called whether it parses or not.
C12_DeadlineIffTimeoutParses ==
    (req.kind \in {"HTTP", "CloudEvent"} /\ invoked > 0)
    => (ctxDeadline = "yes" <=> AtoiOk(timeoutEnv))

\* a non-empty run of characters without the separators in stop
IsRun(seq, stop) == seq # <<>> /\ \A i \in DOMAIN seq : seq[i] \notin stop

StartsWith(seq, lit) == Len(seq) >= Len(lit) /\ SubSeq(seq, 1, Len(lit)) = lit

EndsWith(seq, lit) ==
    Len(seq) >= Len(lit) /\ SubSeq(seq, Len(seq) - Len(lit) + 1, Len(seq)) = lit

After(seq, n) == SubSeq(seq, n + 1, Len(seq))

\* path[i..k] reads projects/<project>/topics/<topic>, project and topic
\* non-empty and free of "/" and "?"
TopicSegment(path, i, k) ==
    /\ i + 6 <= k
    /\ path[i] = "projects"
    /\ path[i + 1] = "/"
    /\ \E j \in (i + 2)..(k - 4) :
        /\ path[j + 1] = "/"
        /\ path[j + 2] = "topics"
        /\ path[j + 3] = "/"
        /\ \A m \in ((i + 2)..j) \cup ((j + 4)..k) : path[m] \notin {"/", "?"}

HasTopicSegment(path) ==
    \E i \in 1..Len(path), k \in 1..Len(path) : TopicSegment(path, i, k)

\* C20: ExtractTopicFromRequestPath returns a projects/<project>/topics/<topic>
\* segment of the path, up to the end of the topic and so without query
\* string or trailing slashes, whenever the path has such a segment, and an
\* error whenever it has none.
C20_ExtractTopic ==
    pure.fn = "ExtractTopicFromRequestPath" =>
        LET path == pure.in
            out  == pure.out
        IN  IF HasTopicSegment(path)
            THEN /\ out.err = NoErr
                 /\ \E i \in 1..Len(path), k \in 1..Len(path) :
                       /\ TopicSegment(path, i, k)
                       /\ k = Len(path) \/ path[k + 1] \in {"/", "?"}
                       /\ out.topic = SubSeq(path, i, k)
            ELSE out.err # NoErr /\ out.topic = <<>>

\* a topic found behind a host prefix and before a query string
C20_Witness ==
    /\ pure.fn = "ExtractTopicFromRequestPath"
    /\ StartsWith(pure.in, <<"h", "/">>)
    /\ EndsWith(pure.in, <<"/", "/", "?", "x">>)
    /\ pure.out.err = NoErr
    /\ pure.out.topic = <<"projects", "/", "a", "/", "topics", "/", "a">>

\* what the two parts of a resource name look like, per service
ResourceShape(service, r) ==
    CASE service = "firebase.googleapis.com" ->
           StartsWith(r, <<"projects", "/">>) /\ IsRun(After(r, 2), {"/"})
      [] service = "firebasedatabase.googleapis.com" ->
           StartsWith(r, <<"projects", "/", "_", "/", "instances", "/">>)
           /\ IsRun(After(r, 6), {"/"})
      [] service = "firestore.googleapis.com" ->
           /\ StartsWith(r, <<"projects", "/">>)
           /\ EndsWith(r, <<"/", "databases", "/", "(default)">>)
           /\ Len(r) > 6
           /\ IsRun(SubSeq(r, 3, Len(r) - 4), {"/"})
      [] service = "storage.googleapis.com" ->
           StartsWith(r, <<"projects", "/", "_", "/", "buckets", "/">>)
           /\ IsRun(After(r, 6), {"/"})
      [] OTHER -> FALSE

SubjectShape(service, sub) ==
    CASE service = "firebase.googleapis.com" ->
           StartsWith(sub, <<"events", "/">>) /\ IsRun(After(sub, 2), {"/"})
      [] service = "firebasedatabase.googleapis.com" ->
           StartsWith(sub, <<"refs", "/">>) /\ Len(sub) > 2
      [] service = "firestore.googleapis.com" ->
           StartsWith(sub, <<"documents", "/">>) /\ Len(sub) > 2
      [] service = "storage.googleapis.com" ->
           StartsWith(sub, <<"objects", "/">>) /\ Len(sub) > 2
      [] OTHER -> FALSE

HasPattern(service) ==
    service \in {"firebase.googleapis.com", "firebasedatabase.googleapis.com",
                 "firestore.googleapis.com", "storage.googleapis.com"}

MatchesPattern(service, resource) ==
    \E k \in 1..Len(resource) :
        /\ resource[k] = "/"
        /\ ResourceShape(service, SubSeq(resource, 1, k - 1))
        /\ SubjectShape(service, After(resource, k))

C14_UnknownTypeRejected ==
    LET ev        == getBackgroundEvent(req.body, URLPath(req.path))
        unknown   == \A e \in typeBackgroundToCloudEvent : e[1] # ev.md.EventType
        noservice == /\ ~ev.md.Resource.isNil
                     /\ ev.md.Resource.Service = ""
                     /\ \A e \in serviceBackgroundToCloudEvent :
                           e[1] # Head(ev.md.EventType)
    IN  (/\ req.kind = "CloudEvent" /\ req.body.ce = "no"
         /\ ev.err = NoErr /\ ~ev.md.isNil /\ ev.data # "nil"
         /\ unknown \/ noservice)
        => /\ resp.status \in 400..499
           /\ resp.hdr = "crash"
           /\ invoked = 0

\* a background event of an unknown type was refused by a CloudEvent function
C14_Witness ==
    /\ req.kind = "CloudEvent" /\ req.body.ce = "no"
    /\ req.body.data = "value" /\ req.body.context = "present"
    /\ req.body.evType = <<"google.invalid", ".type">>
    /\ resp.status = 415 /\ resp.hdr = "crash"
    /\ invoked = 0

\* The body decodes: it is well-formed JSON and none of its known keys has
\* a value of the wrong type.
WellTyped(body) == body.wf /\ body.context # "bad" /\ body.eventId # "bad"

C18_LegacyWithoutTopic ==
    (pure.fn = "getBackgroundEvent" /\ WellTyped(pure.in[1])
        /\ pure.in[1].legacy = "present"
        /\ pure.in[1].data = "absent" /\ pure.in[1].context = "absent"
        /\ ~HasTopicSegment(pure.in[2]))
    => /\ pure.out.err = NoErr
       /\ ~pure.out.md.isNil /\ pure.out.data # "nil"
       /\ pure.out.md.EventType = <<"google.pubsub", ".topic.publish">>
       /\ pure.out.md.Resource.Service = "pubsub.googleapis.com"
       /\ pure.out.md.EventID = pure.in[1].msgId
       /\ pure.out.md.Resource.Name = <<>>

\* a legacy body was posted to /f
C18_Witness ==
    /\ pure.fn = "getBackgroundEvent"
    /\ pure.in[1].legacy = "present" /\ pure.in[1].data = "absent"
    /\ pure.in[1].context = "absent" /\ pure.in[1].wf
    /\ pure.in[2] = <<"/", "f">>
    /\ pure.out.md.EventID = "m1" /\ pure.out.md.Resource.Name = <<>>

\* C13: a Pub/Sub background event (type google.pubsub.topic.publish, service
\* pubsub.googleapis.com, resource name projects/P/topics/T) converted to a
\* CloudEvent and back has the event id, event type and resource name it
\* started with.
C13_PubSubRoundTrip ==
    (/\ pure.fn = "roundTrip"
     /\ pure.in.evType = <<"google.pubsub", ".topic.publish">>
     /\ pure.in.resource.Service = "pubsub.googleapis.com"
     /\ TopicSegment(pure.in.resource.Name, 1, Len(pure.in.resource.Name)))
    => /\ pure.out.rc = 200
       /\ ~pure.out.md.isNil
       /\ pure.out.md.EventID = pure.in.eventId
       /\ pure.out.md.EventType = pure.in.evType
       /\ pure.out.md.Resource.Name = pure.in.resource.Name

\* the event of topic projects/q/topics/u went through the CloudEvent
\* //pubsub.googleapis.com/projects/q/topics/u and came back
C13_Witness ==
    /\ pure.fn = "roundTrip"
    /\ pure.in.evType = <<"google.pubsub", ".topic.publish">>
    /\ pure.in.eventId = "e2"
    /\ pure.out.ce.type = "google.cloud.pubsub.topic.v1.messagePublished"
    /\ pure.out.ce.source = <<"/", "/", "pubsub.googleapis.com", "/",
                              "projects", "/", "q", "/", "topics", "/", "u">>
    /\ pure.out.md.EventID = "e2"
    /\ pure.out.md.Resource.Name = <<"projects", "/", "q", "/", "topics", "/", "u">>

\* The registry after a step
RegistryAfter == [functions |-> functions', functionsWithoutNames |-> functionsWithoutNames']

\* C21: a registration with an empty name and a non-empty path succeeds and
\* appends to the unnamed list, whatever is registered already;
\* GetLastFunctionWithoutName returns nil before any unnamed registration,
\* the function just registered after an unnamed registration, and what it
\* returned before after every other call.
C21_UnnamedAppendedLastServed ==
    /\ ~GetLastFunctionWithoutName(Registry).ok
    /\ [][nCalls' = nCalls + 1 =>
            IF lastCall'.name = "" /\ lastCall'.path # ""
            THEN /\ lastCall'.err = NoErr
                 /\ Len(functionsWithoutNames') = Len(functionsWithoutNames) + 1
                 /\ SubSeq(functionsWithoutNames', 1, Len(functionsWithoutNames))
                      = functionsWithoutNames
                 /\ functions' = functions
                 /\ GetLastFunctionWithoutName(RegistryAfter).ok
                 /\ CallbackOf(GetLastFunctionWithoutName(RegistryAfter).fn) = lastCall'.fn
                 /\ GetLastFunctionWithoutName(RegistryAfter).fn.Path = lastCall'.path
                 /\ GetLastFunctionWithoutName(RegistryAfter).fn.Name = ""
            ELSE GetLastFunctionWithoutName(RegistryAfter)
                   = GetLastFunctionWithoutName(Registry)]_vars

\* two unnamed functions were registered under the same path, the second is
\* the last one
C21_Witness ==
    /\ Len(functionsWithoutNames) = 2
    /\ functionsWithoutNames[1].Path = functionsWithoutNames[2].Path
    /\ functionsWithoutNames[1] # functionsWithoutNames[2]
    /\ lastCall.name = "" /\ lastCall.err = NoErr
    /\ CallbackOf(GetLastFunctionWithoutName(Registry).fn) = lastCall.fn

\* All bytes given to Write so far, in order
RECURSIVE Concat(_)
Concat(ss) == IF ss = <<>> THEN <<>> ELSE Head(ss) \o Concat(Tail(ss))

LineFeeds(s) == {i \in 1..Len(s) : s[i] = NL}

\* Position of the k-th line feed of s
LineFeed(s, k) ==
    CHOOSE i \in LineFeeds(s) : Cardinality({j \in LineFeeds(s) : j <= i}) = k

\* The line-feed-terminated byte sequences of s, without the line feed
TerminatedLines(s) ==
    [k \in 1..Cardinality(LineFeeds(s)) |->
        SubSeq(s, IF k = 1 THEN 1 ELSE LineFeed(s, k - 1) + 1, LineFeed(s, k) - 1)]

C23_ArgumentFromBodyOnly ==
    (req.kind = "Typed" /\ invoked > 0) =>
        argSeen = Unmarshal(ZeroStruct, req.body).val

\* The error response wrapEventFunction writes when the conversion fails
ConversionErrorMsg ==
    <<"error converting CloudEvent to Background Event: ">> \o ConvErr \o <<NL>>

\* C24: once the event adapter has written the error response for a failed
\* conversion, the request is finished: the user function is not invoked and
\* nothing follows that message in the response body.
C24_ErrorResponseIsTerminal ==
    (req.kind = "Event" /\ StartsWith(resp.body, ConversionErrorMsg)) =>
        /\ invoked = 0
        /\ resp.body = ConversionErrorMsg

\* getBackgroundEvent classifies the body of the last request as a
\* background event: no error, metadata and data both non-nil.
ClassifiedBackground ==
    LET ev == getBackgroundEvent(req.body, URLPath(req.path)) IN
    ev.err = NoErr /\ ~ev.md.isNil /\ ev.data # "nil"

\* C25: for a request to a CloudEvent function whose body is classified as a
\* background event, the conversion either rewrites the request, and the
\* function is called with the CloudEvent, or answers with an error status;
\* no panic leaves the handler before the function has been called.
C25_ConversionNeverDereferencesNil ==
    (req.kind = "CloudEvent" /\ req.body.ce = "no" /\ ClassifiedBackground) =>
        \/ invoked > 0
        \/ ~escaped /\ resp.status = 415

\* Every function in the registry
AllRegistered ==
    {functions[n] : n \in DOMAIN functions}
        \cup {functionsWithoutNames[i] : i \in DOMAIN functionsWithoutNames}

\* C26: with no target configured and callbacks that can all be wrapped
\* without a panic, initServer ends with a multiplexer or an error for every
\* registry the registration calls can build, two functions under one path
\* included; it does not panic while binding the handlers.
C26_BindingNeverPanics ==
    (Started /\ target = "" /\ \A f \in AllRegistered : ~wrapFunction(f).panicked)
    => phase \in {"serving", "failed"}

\* The generic response body of a recovered panic
GenericPanicBody == PanicMsg(UserExec) \o <<NL>>

\* What recoverPanic writes to the error stream about the panic value v
PanicLog(v) == <<"panic message: ", v, NL, "stack trace: ", v, NL, "debug.Stack()">>

\* C27 (amended): when a user function panics, what the adapter adds to the
\* response body is the fixed generic message, after whatever an HTTP
\* function had written itself, and nothing for a CloudEvent function; the
\* body is therefore the same for any two panic values; the panic value and
\* the stack trace go to the error stream and never into the response.
C27_PanicBodyGeneric ==
    UserPanicked =>
        /\ resp.body =
              IF req.kind = "CloudEvent" THEN <<>>
              ELSE IF req.kind = "HTTP"
              THEN userWrites(NewWriter, req.beh.writes).body \o GenericPanicBody
              ELSE GenericPanicBody
        /\ ~Contains(resp.body, req.beh.panicVal)
        /\ ContainsSeq(stderr, PanicLog(req.beh.panicVal))

\* A typed function panicked with the second panic value: generic body, the
\* value on the error stream only.
C27_Witness ==
    /\ req.kind = "Typed" /\ UserPanicked /\ req.beh.panicVal = "secret"
    /\ resp.body = GenericPanicBody
    /\ Contains(stderr, "secret")

\* C27 as stated: the response body of a request whose function panicked is
\* the fixed generic message.
C27_PanicBodyIsGenericMessage ==
    UserPanicked => resp.body = GenericPanicBody

\* The callback fields of f that are set
CallbackFields(f) ==
    {k \in {"HTTPFn", "CloudEventFn", "EventFn", "TypedFn"} : f[k] # NilFn}

\* C28: after any sequence of registration calls every function held in the
\* registry has exactly one of its four callback fields non-nil.
C28_ExactlyOneCallback ==
    \A f \in AllRegistered : Cardinality(CallbackFields(f)) = 1

\* No two registered functions share a path
DistinctPaths ==
    \A f, g \in AllRegistered : f # g => f.Path # g.Path

\* C29: for any value registered as an event or typed function, a function
\* or not, validation returns success or an error and does not panic; with
\* distinct paths and no target, starting the server then ends with a
\* multiplexer or an error.
C29_ValidationNeverPanics ==
    /\ \A f \in AllRegistered :
          /\ f.EventFn # NilFn => ~validateEventFunction(f.EventFn).panicked
          /\ f.TypedFn # NilFn => ~validateTypedFunction(f.TypedFn).panicked
    /\ (Started /\ target = "" /\ DistinctPaths) => phase \in {"serving", "failed"}

\* The keys of the service table that are a prefix of the event type
MatchingServices(type) ==
    {e \in serviceBackgroundToCloudEvent : HasPrefix(type, e[1])}

\* C30: for every event type that is a key of typeBackgroundToCloudEvent
\* exactly one key of serviceBackgroundToCloudEvent is a prefix of it, the
\* type's first chunk, and the service the loop infers is that key's
\* service in whatever order the table is iterated.
C30_UniqueServicePrefix ==
    (pure.fn = "inferService"
        /\ pure.in[1] \in {ty[1] : ty \in typeBackgroundToCloudEvent})
    => LET m == MatchingServices(pure.in[1]) IN
       /\ Cardinality(m) = 1
       /\ \A e \in m : e[1] = Head(pure.in[1]) /\ pure.out = e[2]

\* The legacy storage type, with the matching key first in the iteration:
\* no later key overwrote the service.
C30_Witness ==
    /\ pure.fn = "inferService"
    /\ pure.in[1] = <<"providers/cloud.storage/", "eventTypes/object.change">>
    /\ pure.in[2][1][1] = "providers/cloud.storage/"
    /\ pure.out = "storage.googleapis.com"

====
